---- MODULE Spec2Model ----
(***************************************************************************)
(* bup-cron: the Pidfile process lock and the run orchestrator             *)
(* (process() and main()) of src/bup_cron/__init__.py.                     *)
(*                                                                         *)
(* Two specifications share the Pidfile actions:                           *)
(*   Spec     several processes use `with Pidfile(path)` on one lock file; *)
(*            every system call of create() is one step, so that all the   *)
(*            interleavings of the acquirers are explored;                 *)
(*   SpecRun  one process executes main(): repository init, the lock, the  *)
(*            per-path pipeline of process(), the exit status              *)
(*            (SpecRunFair: the same run, which never stops half-way).     *)
(* Three more follow the texts the program handles and the snapshot:       *)
(*   SpecCli     one run of main() from the command line to the commands   *)
(*               it hands to bup, with the texts of paths and names;       *)
(*   SpecSelect  Snapshot.select applied to every short name;              *)
(*   SpecSnap    the scope of the volume snapshot of one path, run after   *)
(*               run on one host, a killed run included.                   *)
(***************************************************************************)
EXTENDS Integers, Sequences, FiniteSets, TLC

(* ----------------------------- bounds ---------------------------------- *)
NProcs == 2
MaxPaths == 2

Procs == 1..NProcs
\* the process executing main() in SpecRun
Main == 1

\* os.getpid() of the model's processes
Getpid(p) == 10 + p

\* process ids of processes outside the model that a lock file may name:
\* 7 is alive and owned by the same user, 5 is alive and owned by another
\* user (no permission to signal it), 99 does not exist
ExtAlive == {5, 7}
ExtOtherUser == {5}

(* ------------------------- strings and integers ------------------------ *)
DigitChars == <<"0", "1", "2", "3", "4", "5", "6", "7", "8", "9">>

IsDigit(c) == \E i \in 1..10 : DigitChars[i] = c

DigitVal(c) == (CHOOSE i \in 1..10 : DigitChars[i] = c) - 1

IsSpace(c) == c \in {" ", "\n", "\t"}

\* str(n) for an integer n >= 0: the decimal digits, most significant first
RECURSIVE StrNat(_)
StrNat(n) == IF n < 10 THEN <<DigitChars[n + 1]>>
             ELSE StrNat(n \div 10) \o <<DigitChars[(n % 10) + 1]>>

RECURSIVE LStrip(_)
LStrip(s) == IF s # <<>> /\ IsSpace(Head(s)) THEN LStrip(Tail(s)) ELSE s

RECURSIVE RStrip(_)
RStrip(s) == IF s # <<>> /\ IsSpace(s[Len(s)])
             THEN RStrip(SubSeq(s, 1, Len(s) - 1)) ELSE s

RECURSIVE DigitsVal(_)
DigitsVal(s) == IF s = <<>> THEN 0
                ELSE 10 * DigitsVal(SubSeq(s, 1, Len(s) - 1)) + DigitVal(s[Len(s)])

AllDigits(s) == s # <<>> /\ \A i \in 1..Len(s) : IsDigit(s[i])

\* int() that reads the empty text as 0
ParseInt_EmptyIsZero(s) ==
    LET t == RStrip(LStrip(s))
        signed == t # <<>> /\ Head(t) \in {"+", "-"}
        body == IF signed THEN Tail(t) ELSE t
    IN IF t = <<>> \/ AllDigits(body)
       THEN [ok |-> TRUE,
             val |-> IF signed /\ Head(t) = "-" THEN 0 - DigitsVal(body)
                     ELSE DigitsVal(body)]
       ELSE [ok |-> FALSE, val |-> 0]

\* int(pidstr): surrounding white space is ignored, one sign is accepted,
\* the rest must be a non-empty run of decimal digits; anything else raises
\* ValueError (ok = FALSE)
ParseInt(s) ==
    LET t == RStrip(LStrip(s))
        signed == t # <<>> /\ Head(t) \in {"+", "-"}
        body == IF signed THEN Tail(t) ELSE t
    IN IF AllDigits(body)
       THEN [ok |-> TRUE,
             val |-> IF signed /\ Head(t) = "-" THEN 0 - DigitsVal(body)
                     ELSE DigitsVal(body)]
       ELSE [ok |-> FALSE, val |-> 0]

(* ------------------------------ state ---------------------------------- *)
VARIABLES
    lockfile,    \* the file at the lock path: [ino, content]; ino 0 = absent
    dirWritable, \* may this user create and unlink in the lock's directory
    chmodded,    \* the permissions of the lock's directory were changed
    procfs,      \* is /proc available
    pc,          \* position of every process
    pidfd,       \* Pidfile.pidfd: "unset", "none", "open" or "closed"
    fdIno,       \* the inode the descriptor in pidfd was opened on
    pidstr,      \* _check: the text read from the lock file
    pid,         \* _check: int(pidstr); create: the value _check returned
    chk,         \* what _check returned: "unset", "false", "none", "pid"
    errno,       \* errno of the last OSError caught by create
    exc,         \* the exception in flight: [type, pid, raw]
    inBody,      \* the with-body of this process's Pidfile was entered
    calls,       \* number of create() calls made by the process
    args,        \* main: the parsed arguments
    repoExists,  \* os.path.exists(os.environ["BUP_DIR"])
    initialised, \* main: the repository was initialised by this run
    path,        \* process: index in args.paths of the current path
    success,     \* process: the success flag
    cmds,        \* the commands invoked for the current path: [cmd, ok]
    done,        \* the results of the paths whose snapshot scope was left
    sizes,       \* BupCronMetaData.sizes
    snapExists,  \* Snapshot.exists of the current snapshot object
    snapPath,    \* Snapshot.path: "src" (the source path) or "snap"
    snapVolume,  \* a snapshot volume of this run exists on the host
    snapVgLv,    \* LvmSnapshot.vg_lv is set (a volume group and volume)
    status,      \* exit status of the process; -1 while it runs
    conf,        \* SpecCli: the command line and the environment of the run
    cpc,         \* SpecCli: position of main()
    clog,        \* SpecCli: what the run has done so far: [ev, cmd, ok]
    cstatus,     \* SpecCli: exit status; -1 while it runs
    selName,     \* SpecSelect: the name given to Snapshot.select
    selResult,   \* SpecSelect: what select returned; "unset" before the call
    lvmHost,     \* SpecSnap: the host: is the path on a logical volume, do
                 \* `mount` and `lvs` run, was a snapshot volume left behind
    snapRuns     \* SpecSnap: number of the run

lockVars == <<lockfile, dirWritable, chmodded, procfs, pc, pidfd, fdIno,
              pidstr, pid, chk, errno, exc, inBody, calls>>

NoFile == [ino |-> 0, content |-> <<>>]

\* the inode of the file the current create() call of p creates: a number no
\* other call uses (1 is the file found at the start)
NewIno(p) == 1 + (p - 1) * 2 + calls[p]

NoExc == [type |-> "none", pid |-> 0, raw |-> <<>>]

Exc(t) == [type |-> t, pid |-> 0, raw |-> <<>>]

\* ProcessRunningException(path, pid) raised with the pid _check returned
ProcessRunningException(n) == [type |-> "PRE", pid |-> n, raw |-> <<>>]

\* ProcessRunningException(path, f.read()) raised with the file's text
ProcessRunningExceptionRaw(s) == [type |-> "PRE_raw", pid |-> 0, raw |-> s]

\* contents a lock file left by somebody else may have
InitContents == { <<>>, <<"x">>, <<"0">>, StrNat(5), StrNat(7), StrNat(99),
                  StrNat(7) \o <<"\n">> }

(* --------------------------- the environment --------------------------- *)
\* is a process with this id running
Alive(n) == \/ n \in ExtAlive
            \/ \E q \in Procs : Getpid(q) = n /\ pc[q] \notin {"idle", "exited"}

\* os.path.exists("/proc/%d" % pid)
ProcExists(n) == procfs /\ n > 0 /\ Alive(n)

\* os.kill(pid, 0): "ok", or the errno of the OSError.  Pid 0 addresses the
\* caller's own process group, which always exists.
Kill0(n) == IF n = 0 THEN "ok"
            ELSE IF n > 0 /\ Alive(n)
                 THEN (IF n \in ExtOtherUser THEN "EPERM" ELSE "ok")
                 ELSE "ESRCH"

\* os.open(path, O_CREAT | O_WRONLY | O_EXCL): "ok" or the errno
OpenExcl == IF lockfile.ino # 0 THEN "EEXIST"
            ELSE IF ~dirWritable THEN "EACCES" ELSE "ok"

\* os.remove(path): "ok" or the errno
Unlink == IF lockfile.ino = 0 THEN "ENOENT"
          ELSE IF ~dirWritable THEN "EACCES" ELSE "ok"

(* ------------------------- Pidfile.create ------------------------------ *)
\* an exception leaves create(): out of __enter__ the with statement never
\* calls __exit__ and the exception propagates; out of a create() called in
\* the with-body the body fails and __exit__ receives the exception
Raise(p, e) ==
    /\ exc' = [exc EXCEPT ![p] = e]
    /\ pc' = [pc EXCEPT ![p] = IF inBody[p] THEN "exit" ELSE "raised"]

\* line 788: the first exclusive creation
Open1(p) ==
    /\ pc[p] = "open1"
    /\ CASE OpenExcl = "ok" ->
              /\ lockfile' = [ino |-> NewIno(p), content |-> <<>>]
              /\ pidfd' = [pidfd EXCEPT ![p] = "open"]
              /\ fdIno' = [fdIno EXCEPT ![p] = NewIno(p)]
              /\ pc' = [pc EXCEPT ![p] = "write"]
              /\ UNCHANGED <<errno, exc>>
         [] OpenExcl = "EEXIST" ->
              /\ errno' = [errno EXCEPT ![p] = "EEXIST"]
              /\ pc' = [pc EXCEPT ![p] = "check"]
              /\ UNCHANGED <<lockfile, pidfd, fdIno, exc>>
         [] OTHER ->
              \* line 811: any other OSError is raised again
              /\ errno' = [errno EXCEPT ![p] = OpenExcl]
              /\ Raise(p, Exc("OSError"))
              /\ UNCHANGED <<lockfile, pidfd, fdIno>>
    /\ UNCHANGED <<dirWritable, chmodded, procfs, pidstr, pid, chk, inBody, calls>>

\* what create does with the value _check returned (lines 792-795)
AfterCheck(p, kind, n) ==
    /\ chk' = [chk EXCEPT ![p] = kind]
    /\ pid' = [pid EXCEPT ![p] = n]
    /\ IF kind = "pid" /\ n # 0
       THEN /\ pidfd' = [pidfd EXCEPT ![p] = "none"]
            /\ Raise(p, ProcessRunningException(n))
       ELSE /\ pc' = [pc EXCEPT ![p] = "remove"]
            /\ UNCHANGED <<pidfd, exc>>

\* lines 834-841: _check opens and reads the lock file and parses the text
Check(p) ==
    /\ pc[p] = "check"
    /\ IF lockfile.ino = 0
       THEN \* open(self.pidfile, "r") fails: the file has gone meanwhile
            /\ Raise(p, Exc("FileNotFoundError"))
            /\ UNCHANGED <<pidstr, pid, chk, pidfd>>
       ELSE /\ pidstr' = [pidstr EXCEPT ![p] = lockfile.content]
            /\ IF ParseInt(lockfile.content).ok
               THEN /\ pid' = [pid EXCEPT ![p] = ParseInt(lockfile.content).val]
                    /\ pc' = [pc EXCEPT ![p] = "probe"]
                    /\ UNCHANGED <<chk, pidfd, exc>>
               ELSE AfterCheck(p, "false", 0)
    /\ UNCHANGED <<lockfile, dirWritable, chmodded, procfs, fdIno, errno,
                   inBody, calls>>

\* the probe with a signal refused for lack of permission read as "not
\* running"
ProbeResult_EpermIsDead(n) ==
    IF ProcExists(n) THEN "pid"
    ELSE CASE Kill0(n) = "ok" -> "pid"
           [] Kill0(n) = "EPERM" -> "false"
           [] Kill0(n) = "ESRCH" -> "false"
           [] OTHER -> "none"

\* lines 843-859: the liveness probe of _check
ProbeResult(n) ==
    IF ProcExists(n) THEN "pid"
    ELSE CASE Kill0(n) = "ok" -> "pid"
           [] Kill0(n) = "EPERM" -> "pid"
           [] Kill0(n) = "ESRCH" -> "false"
           [] OTHER -> "none"

Probe(p) ==
    /\ pc[p] = "probe"
    /\ AfterCheck(p, ProbeResult(pid[p]), pid[p])
    /\ UNCHANGED <<lockfile, dirWritable, chmodded, procfs, fdIno, pidstr,
                   errno, inBody, calls>>

\* lines 802-809: the handler of the OSError of the removal or of the retry
StaleError(p, e) ==
    /\ errno' = [errno EXCEPT ![p] = e]
    /\ pc' = [pc EXCEPT ![p] = IF e = "EACCES" THEN "readraise" ELSE "write"]

\* line 797: the stale lock file is removed
Remove(p) ==
    /\ pc[p] = "remove"
    /\ IF Unlink = "ok"
       THEN /\ lockfile' = NoFile
            /\ pc' = [pc EXCEPT ![p] = "retry"]
            /\ UNCHANGED errno
       ELSE /\ StaleError(p, Unlink)
            /\ UNCHANGED lockfile
    /\ UNCHANGED <<dirWritable, chmodded, procfs, pidfd, fdIno, pidstr,
                   pid, chk, exc, inBody, calls>>

\* lines 799-801: the exclusive creation is tried once more
Retry(p) ==
    /\ pc[p] = "retry"
    /\ IF OpenExcl = "ok"
       THEN /\ lockfile' = [ino |-> NewIno(p), content |-> <<>>]
            /\ pidfd' = [pidfd EXCEPT ![p] = "open"]
            /\ fdIno' = [fdIno EXCEPT ![p] = NewIno(p)]
            /\ pc' = [pc EXCEPT ![p] = "write"]
            /\ UNCHANGED errno
       ELSE /\ StaleError(p, OpenExcl)
            /\ UNCHANGED <<lockfile, pidfd, fdIno>>
    /\ UNCHANGED <<dirWritable, chmodded, procfs, pidstr, pid, chk, exc, inBody,
                   calls>>

\* lines 808-809: the lock file is read and its text raised
ReadRaise(p) ==
    /\ pc[p] = "readraise"
    /\ IF lockfile.ino = 0
       THEN Raise(p, Exc("FileNotFoundError"))
       ELSE Raise(p, ProcessRunningExceptionRaw(lockfile.content))
    /\ UNCHANGED <<lockfile, dirWritable, chmodded, procfs, pidfd, fdIno,
                   pidstr, pid, chk, errno, inBody, calls>>

\* lines 813-815: the process id is written through the descriptor, which
\* is closed; create returns.  The text lands in the file the descriptor
\* was opened on, which is the lock file only while it has not been
\* unlinked.  Without an open descriptor os.write raises.
Write(p) ==
    /\ pc[p] = "write"
    /\ CASE pidfd[p] = "open" ->
              /\ lockfile' = IF lockfile.ino = fdIno[p]
                             THEN [lockfile EXCEPT !.content = StrNat(Getpid(p))]
                             ELSE lockfile
              /\ pidfd' = [pidfd EXCEPT ![p] = "closed"]
              /\ inBody' = [inBody EXCEPT ![p] = TRUE]
              /\ pc' = [pc EXCEPT ![p] = "body"]
              \* the locals of create() and _check() end with the call
              /\ pidstr' = [pidstr EXCEPT ![p] = <<>>]
              /\ pid' = [pid EXCEPT ![p] = 0]
              /\ chk' = [chk EXCEPT ![p] = "unset"]
              /\ errno' = [errno EXCEPT ![p] = "none"]
              /\ UNCHANGED exc
         [] pidfd[p] = "unset" ->
              /\ Raise(p, Exc("AttributeError"))
              /\ UNCHANGED <<lockfile, pidfd, inBody, pidstr, pid, chk, errno>>
         [] pidfd[p] = "none" ->
              /\ Raise(p, Exc("TypeError"))
              /\ UNCHANGED <<lockfile, pidfd, inBody, pidstr, pid, chk, errno>>
         [] OTHER ->
              \* a descriptor closed by an earlier create(): EBADF
              /\ Raise(p, Exc("OSError"))
              /\ UNCHANGED <<lockfile, pidfd, inBody, pidstr, pid, chk, errno>>
    /\ UNCHANGED <<dirWritable, chmodded, procfs, fdIno, calls>>

(* ---------------------- Pidfile.__enter__/__exit__ --------------------- *)
\* lines 763-765: __enter__ calls create()
Enter(p) ==
    /\ pc[p] = "idle"
    /\ pc' = [pc EXCEPT ![p] = "open1"]
    /\ calls' = [calls EXCEPT ![p] = 1]
    /\ UNCHANGED <<lockfile, dirWritable, chmodded, procfs, pidfd, fdIno,
                   pidstr, pid, chk, errno, exc, inBody>>

\* __exit__ that removes the lock file only after a body without exception
ExitWith_KeepOnError(p, e) ==
    /\ IF e.type = "none"
       THEN /\ lockfile' = NoFile
            /\ pc' = [pc EXCEPT ![p] = "done"]
       ELSE /\ pc' = [pc EXCEPT ![p] = "raised"]
            /\ UNCHANGED lockfile
    /\ exc' = [exc EXCEPT ![p] = e]
    /\ UNCHANGED <<dirWritable, chmodded, procfs, pidfd, fdIno, pidstr,
                   pid, chk, errno, inBody, calls>>

\* lines 767-782 with remove() of lines 817-820: __exit__ called with the
\* exception e of the with-body (type "none": the body completed)
ExitWith(p, e) ==
    /\ IF \/ e.type = "none"
          \/ e.type \notin {"PRE", "PRE_raw"} /\ pidfd[p] \in {"open", "closed"}
       THEN \* self.remove()
            CASE Unlink = "ok" ->
                   /\ lockfile' = NoFile
                   /\ exc' = [exc EXCEPT ![p] = e]
                   /\ pc' = [pc EXCEPT ![p] = IF e.type = "none" THEN "done"
                                              ELSE "raised"]
              [] Unlink = "ENOENT" ->
                   /\ exc' = [exc EXCEPT ![p] = Exc("FileNotFoundError")]
                   /\ pc' = [pc EXCEPT ![p] = "raised"]
                   /\ UNCHANGED lockfile
              [] OTHER ->
                   /\ exc' = [exc EXCEPT ![p] = Exc("PermissionError")]
                   /\ pc' = [pc EXCEPT ![p] = "raised"]
                   /\ UNCHANGED lockfile
       ELSE /\ exc' = [exc EXCEPT ![p] = e]
            /\ pc' = [pc EXCEPT ![p] = "raised"]
            /\ UNCHANGED lockfile
    /\ UNCHANGED <<dirWritable, chmodded, procfs, pidfd, fdIno, pidstr,
                   pid, chk, errno, inBody, calls>>

\* the with-body failed with the exception in flight
Exit(p) ==
    /\ pc[p] = "exit"
    /\ ExitWith(p, exc[p])

(* ----------------- the users of the lock in Spec ----------------------- *)
\* the with-body ends, normally or with an exception of its own, and
\* __exit__ runs
BodyEnd(p) ==
    /\ pc[p] = "body"
    /\ \E t \in {"none", "Exception"} : ExitWith(p, Exc(t))

\* the with-body calls create() on the same Pidfile a second time
Reacquire(p) ==
    /\ pc[p] = "body"
    /\ calls[p] = 1
    /\ calls' = [calls EXCEPT ![p] = calls[p] + 1]
    /\ pc' = [pc EXCEPT ![p] = "open1"]
    /\ UNCHANGED <<lockfile, dirWritable, chmodded, procfs, pidfd, fdIno,
                   pidstr, pid, chk, errno, exc, inBody>>

\* the process ends after the with statement, or is killed at any point
Terminate(p) ==
    /\ pc[p] \notin {"idle", "exited"}
    /\ pc' = [pc EXCEPT ![p] = "exited"]
    /\ pidfd' = [pidfd EXCEPT ![p] = "unset"]
    /\ fdIno' = [fdIno EXCEPT ![p] = 0]
    /\ pidstr' = [pidstr EXCEPT ![p] = <<>>]
    /\ pid' = [pid EXCEPT ![p] = 0]
    /\ chk' = [chk EXCEPT ![p] = "unset"]
    /\ errno' = [errno EXCEPT ![p] = "none"]
    /\ exc' = [exc EXCEPT ![p] = NoExc]
    /\ inBody' = [inBody EXCEPT ![p] = FALSE]
    /\ calls' = [calls EXCEPT ![p] = 0]
    /\ UNCHANGED <<lockfile, dirWritable, chmodded, procfs>>

\* somebody changes the permissions of the lock's directory, once
Chmod ==
    /\ ~chmodded
    /\ chmodded' = TRUE
    /\ dirWritable' = ~dirWritable
    /\ UNCHANGED <<lockfile, procfs, pc, pidfd, fdIno, pidstr, pid, chk,
                   errno, exc, inBody, calls>>

InitLock ==
    /\ lockfile \in {NoFile} \cup {[ino |-> 1, content |-> c] : c \in InitContents}
    /\ dirWritable \in BOOLEAN
    /\ chmodded = FALSE
    /\ procfs \in BOOLEAN
    /\ pidfd = [p \in Procs |-> "unset"]
    /\ fdIno = [p \in Procs |-> 0]
    /\ pidstr = [p \in Procs |-> <<>>]
    /\ pid = [p \in Procs |-> 0]
    /\ chk = [p \in Procs |-> "unset"]
    /\ errno = [p \in Procs |-> "none"]
    /\ exc = [p \in Procs |-> NoExc]
    /\ inBody = [p \in Procs |-> FALSE]
    /\ calls = [p \in Procs |-> 0]

runVars == <<args, repoExists, initialised, path, success, cmds, done, sizes,
             snapExists, snapPath, snapVolume, snapVgLv, status>>

cliVars == <<conf, cpc, clog, cstatus>>

selVars == <<selName, selResult, lvmHost, snapRuns>>

vars == <<lockVars, runVars, cliVars, selVars>>

\* the variables of SpecCli and of SpecSelect while another specification
\* runs
NoConf == [paths |-> <<>>, name |-> <<>>, branch_name |-> <<>>,
           repository |-> FALSE, repoExists |-> FALSE, verbose |-> 0]

InitCliIdle ==
    /\ conf = NoConf
    /\ cpc = "off"
    /\ clog = <<>>
    /\ cstatus = -1

InitSelIdle ==
    /\ selName = <<>>
    /\ selResult = "unset"

\* the variables of SpecSnap while another specification runs
InitSnapIdle ==
    /\ lvmHost = [onLvm |-> FALSE, mountRuns |-> FALSE, lvsRuns |-> FALSE,
                  stale |-> FALSE]
    /\ snapRuns = 0

\* the arguments main() can get from parse_args (lines 280-319): repair
\* implies check; snapshot is one of the names of snapshot_names
ArgSets ==
    { a \in [clear : BOOLEAN, check : BOOLEAN, repair : BOOLEAN,
             parity : BOOLEAN, stats : BOOLEAN, snapshot : {"NO", "LVM"},
             npaths : 1..MaxPaths] : a.repair => a.check }

InitRunIdle ==
    /\ args = [clear |-> FALSE, check |-> FALSE, repair |-> FALSE,
               parity |-> FALSE, stats |-> FALSE, snapshot |-> "NO", npaths |-> 1]
    /\ repoExists = TRUE
    /\ initialised = FALSE
    /\ path = 0
    /\ success = TRUE
    /\ cmds = <<>>
    /\ done = <<>>
    /\ sizes = <<>>
    /\ snapExists = FALSE
    /\ snapPath = "src"
    /\ snapVolume = FALSE
    /\ snapVgLv = FALSE
    /\ status = -1

Init ==
    /\ InitLock
    /\ InitRunIdle
    /\ InitCliIdle
    /\ InitSelIdle
    /\ InitSnapIdle
    /\ pc = [p \in Procs |-> "idle"]

Next ==
    \/ \E p \in Procs : Enter(p) /\ UNCHANGED <<runVars, cliVars, selVars>>
    \/ \E p \in Procs : Open1(p) /\ UNCHANGED <<runVars, cliVars, selVars>>
    \/ \E p \in Procs : Check(p) /\ UNCHANGED <<runVars, cliVars, selVars>>
    \/ \E p \in Procs : Probe(p) /\ UNCHANGED <<runVars, cliVars, selVars>>
    \/ \E p \in Procs : Remove(p) /\ UNCHANGED <<runVars, cliVars, selVars>>
    \/ \E p \in Procs : Retry(p) /\ UNCHANGED <<runVars, cliVars, selVars>>
    \/ \E p \in Procs : ReadRaise(p) /\ UNCHANGED <<runVars, cliVars, selVars>>
    \/ \E p \in Procs : Write(p) /\ UNCHANGED <<runVars, cliVars, selVars>>
    \/ \E p \in Procs : BodyEnd(p) /\ UNCHANGED <<runVars, cliVars, selVars>>
    \/ \E p \in Procs : Reacquire(p) /\ UNCHANGED <<runVars, cliVars, selVars>>
    \/ \E p \in Procs : Exit(p) /\ UNCHANGED <<runVars, cliVars, selVars>>
    \/ \E p \in Procs : Terminate(p) /\ UNCHANGED <<runVars, cliVars, selVars>>
    \/ Chmod /\ UNCHANGED <<runVars, cliVars, selVars>>

Spec == Init /\ [][Next]_vars

(* ======================= main() and process() ========================== *)
\* the commands of one path, in the order process() may invoke them
Cmd(c, ok) == [cmd |-> c, ok |-> ok]

\* lines 689-695: the fsck command Bup.fsck builds when parity is not asked
\* for: --repair when repair is set, --quick otherwise
FsckCmd(repair) == IF repair THEN "fsck --repair" ELSE "fsck --quick"

VerifyCmds == {"fsck --repair", "fsck --quick"}

\* the commands of c that belong to the verification
RECURSIVE VerifyOf(_)
VerifyOf(c) == IF c = <<>> THEN <<>>
               ELSE IF Head(c).cmd \in VerifyCmds THEN <<Head(c)>> \o VerifyOf(Tail(c))
               ELSE VerifyOf(Tail(c))

IndexOk(c) == \E k \in 1..Len(c) : c[k].cmd = "index" /\ c[k].ok

SaveOk(c) == \E k \in 1..Len(c) : c[k].cmd = "save" /\ c[k].ok

\* the verification of the path ended in failure: its last command failed
VerifyFailed(c) == VerifyOf(c) # <<>> /\ ~VerifyOf(c)[Len(VerifyOf(c))].ok

\* the result of a path, from the outcomes of its commands
RunResult(c) == [index |-> IndexOk(c), save |-> SaveOk(c), verify |-> ~VerifyFailed(c)]

\* parity generated only for a path that has not failed
AfterVerify_ParityOnSuccess ==
    IF args.parity /\ success THEN "parity"
    ELSE IF args.stats THEN "stats" ELSE "snap_exit"

\* where process() goes after the verification, the parity and the
\* statistics of a path (lines 1218-1224)
AfterVerify == IF args.parity THEN "parity"
               ELSE IF args.stats THEN "stats" ELSE "snap_exit"

AfterParity == IF args.stats THEN "stats" ELSE "snap_exit"

\* values a sample of the repository size may have
SizeSamples == {1, 2}

\* lines 1252-1257: the repository is initialised when its directory is
\* absent; bail(3) raises SystemExit inside the try block, where line 1265
\* catches it and main returns
RunInit ==
    /\ pc[Main] = "main"
    /\ IF repoExists
       THEN /\ pc' = [pc EXCEPT ![Main] = "idle"]
            /\ UNCHANGED <<repoExists, initialised, status>>
       ELSE \E ok \in BOOLEAN :
              IF ok
              THEN /\ repoExists' = TRUE
                   /\ initialised' = TRUE
                   /\ pc' = [pc EXCEPT ![Main] = "idle"]
                   /\ UNCHANGED status
              ELSE /\ status' = 0
                   /\ pc' = [pc EXCEPT ![Main] = "exited"]
                   /\ UNCHANGED <<repoExists, initialised>>
    /\ UNCHANGED <<lockfile, dirWritable, chmodded, procfs, pidfd, fdIno, pidstr,
                   pid, chk, errno, exc, inBody, calls, args, path, success,
                   cmds, done, sizes, snapExists, snapPath, snapVolume, snapVgLv>>

\* lines 1260-1262: the index is cleared on request unless the repository
\* is new; the handler of a failure calls logging.warninging, which does
\* not exist
RunClear ==
    /\ pc[Main] = "body"
    /\ IF args.clear /\ ~initialised
       THEN \E ok \in BOOLEAN :
              IF ok
              THEN /\ pc' = [pc EXCEPT ![Main] = "process"]
                   /\ UNCHANGED exc
              ELSE /\ exc' = [exc EXCEPT ![Main] = Exc("AttributeError")]
                   /\ pc' = [pc EXCEPT ![Main] = "exit"]
       ELSE /\ pc' = [pc EXCEPT ![Main] = "process"]
            /\ UNCHANGED exc
    /\ UNCHANGED <<lockfile, dirWritable, chmodded, procfs, pidfd, fdIno, pidstr,
                   pid, chk, errno, inBody, calls>>
    /\ UNCHANGED runVars

\* a loop that takes the paths from the last one
RunProcess_LastFirst ==
    /\ pc[Main] = "process"
    /\ success' = TRUE
    /\ path' = args.npaths
    /\ pc' = [pc EXCEPT ![Main] = "snap_enter"]
    /\ UNCHANGED <<lockfile, dirWritable, chmodded, procfs, pidfd, fdIno, pidstr,
                   pid, chk, errno, exc, inBody, calls, args, repoExists,
                   initialised, cmds, done, sizes, snapExists, snapPath,
                   snapVolume, snapVgLv, status>>

\* lines 1166-1168 with BupCronMetaData.__init__ (1016-1020): the first size
\* sample; check_output raises CalledProcessError when the command fails
RunProcess ==
    /\ pc[Main] = "process"
    /\ success' = TRUE
    /\ IF args.stats
       THEN \/ \E n \in SizeSamples :
                 /\ sizes' = <<n>>
                 /\ path' = 1
                 /\ pc' = [pc EXCEPT ![Main] = "snap_enter"]
                 /\ UNCHANGED exc
            \/ /\ exc' = [exc EXCEPT ![Main] = Exc("CalledProcessError")]
               /\ pc' = [pc EXCEPT ![Main] = "exit"]
               /\ UNCHANGED <<sizes, path>>
       ELSE /\ path' = 1
            /\ pc' = [pc EXCEPT ![Main] = "snap_enter"]
            /\ UNCHANGED <<sizes, exc>>
    /\ UNCHANGED <<lockfile, dirWritable, chmodded, procfs, pidfd, fdIno, pidstr,
                   pid, chk, errno, inBody, calls, args, repoExists, initialised,
                   cmds, done, snapExists, snapPath, snapVolume, snapVgLv, status>>

\* LvmSnapshot.find_mountpoint (lines 462-469): the walk from the real path
\* up to a mount point ends at "/" at the latest, which is one; None is
\* never returned
FindMountpoint == TRUE

\* LvmSnapshot.find_device (lines 471-482): check_output(["mount"]) is
\* outside the try and raises when the command fails; its output is bytes,
\* on which re.match with a str pattern raises TypeError, which the bare
\* except turns into False: no device is ever returned
FindDevice(mountRuns) == [raised |-> ~mountRuns, device |-> FALSE]

\* LvmSnapshot.find_vg_lv (lines 485-493): False when lvs fails; when it
\* succeeds its output is bytes, on which re.split with a str pattern raises
\* TypeError, which nothing catches
FindVgLv(lvsRuns) == [raised |-> lvsRuns, vg_lv |-> FALSE]

\* Snapshot.__init__ (lines 331-356) with Snapshot.__enter__ (358-367): the
\* handle of NoSnapshot and the handle every degraded enter returns
NewHandle(volume) ==
    [raised |-> "none", exists |-> FALSE, path |-> "src", vg_lv |-> FALSE,
     volume |-> volume]

\* an enter that sets the path of the mount point before anything is mounted
LvmEnter_PathFirst(mountRuns, lvsRuns, volume) ==
    IF FindDevice(mountRuns).raised
    THEN [NewHandle(volume) EXCEPT !.raised = "CalledProcessError"]
    ELSE [NewHandle(volume) EXCEPT !.path = "snap"]

\* LvmSnapshot.__enter__ (lines 397-460): what enter leaves, and the
\* exception it raises ("none": it returns the handle).  The creation of the
\* snapshot (lines 406-443) needs a device and a volume group, which
\* find_device and find_vg_lv never deliver.
LvmEnter(mountRuns, lvsRuns, volume) ==
    IF ~FindMountpoint THEN NewHandle(volume)
    ELSE IF FindDevice(mountRuns).raised
         THEN [NewHandle(volume) EXCEPT !.raised = "CalledProcessError"]
    ELSE IF ~FindDevice(mountRuns).device THEN NewHandle(volume)
    ELSE IF FindVgLv(lvsRuns).raised
         THEN [NewHandle(volume) EXCEPT !.raised = "TypeError"]
    ELSE IF ~FindVgLv(lvsRuns).vg_lv THEN NewHandle(volume)
    ELSE [raised |-> "none", exists |-> TRUE, path |-> "snap", vg_lv |-> TRUE,
          volume |-> TRUE]

\* a cleanup without the early return of lines 512-513
Cleanup_NoGuard(exists, force, vg_lv, volume) ==
    IF ~vg_lv
    THEN {[raised |-> "TypeError", exists |-> FALSE, volume |-> volume]}
    ELSE {[raised |-> "none", exists |-> FALSE, volume |-> v] :
            v \in {FALSE, volume}}

\* LvmSnapshot.cleanup (lines 510-547): the outcomes of one call.  Nothing
\* is done unless the snapshot exists or the cleanup is forced; then
\* self.mountpoint() formats vg_lv (TypeError when it is not set), the mount
\* point is unmounted and removed and the volume is dropped, each failure
\* being logged only, so that the volume may stay
Cleanup(exists, force, vg_lv, volume) ==
    IF ~exists /\ ~force
    THEN {[raised |-> "none", exists |-> exists, volume |-> volume]}
    ELSE IF ~vg_lv
    THEN {[raised |-> "TypeError", exists |-> FALSE, volume |-> volume]}
    ELSE {[raised |-> "none", exists |-> FALSE, volume |-> v] :
            v \in {FALSE, volume}}

\* lines 1171-1179: the snapshot object is made and entered.  NoSnapshot
\* returns itself (lines 358-367).  An exception of __enter__ leaves the with
\* statement without __exit__ and ends process()
RunSnapEnter ==
    /\ pc[Main] = "snap_enter"
    /\ cmds' = <<>>
    /\ \E mountRuns \in BOOLEAN, lvsRuns \in BOOLEAN :
         LET h == IF args.snapshot = "NO" THEN NewHandle(snapVolume)
                  ELSE LvmEnter(mountRuns, lvsRuns, snapVolume)
         IN /\ snapExists' = h.exists
            /\ snapPath' = h.path
            /\ snapVgLv' = h.vg_lv
            /\ snapVolume' = h.volume
            /\ IF h.raised = "none"
               THEN /\ pc' = [pc EXCEPT ![Main] = "index"]
                    /\ UNCHANGED exc
               ELSE /\ exc' = [exc EXCEPT ![Main] = Exc(h.raised)]
                    /\ pc' = [pc EXCEPT ![Main] = "exit"]
    /\ UNCHANGED <<lockfile, dirWritable, chmodded, procfs, pidfd, fdIno, pidstr,
                   pid, chk, errno, inBody, calls, args, repoExists, initialised,
                   path, success, done, sizes, status>>

\* lines 1184-1194: bup index; a failure clears the flag and `continue`
\* leaves the snapshot scope
RunIndex ==
    /\ pc[Main] = "index"
    /\ \E ok \in BOOLEAN :
         /\ cmds' = Append(cmds, Cmd("index", ok))
         /\ success' = IF ok THEN success ELSE FALSE
         /\ pc' = [pc EXCEPT ![Main] = IF ok THEN "save" ELSE "snap_exit"]
    /\ UNCHANGED <<lockfile, dirWritable, chmodded, procfs, pidfd, fdIno, pidstr,
                   pid, chk, errno, exc, inBody, calls, args, repoExists,
                   initialised, path, done, sizes, snapExists, snapPath,
                   snapVolume, snapVgLv, status>>

\* a save whose failure leaves the snapshot scope as a failed index does
RunSave_SkipsVerify ==
    /\ pc[Main] = "save"
    /\ \E ok \in BOOLEAN :
         /\ cmds' = Append(cmds, Cmd("save", ok))
         /\ success' = IF ok THEN success ELSE FALSE
         /\ pc' = [pc EXCEPT ![Main] = IF ~ok THEN "snap_exit"
                                       ELSE IF args.check THEN "fsck1"
                                       ELSE AfterVerify]
    /\ UNCHANGED <<lockfile, dirWritable, chmodded, procfs, pidfd, fdIno, pidstr,
                   pid, chk, errno, exc, inBody, calls, args, repoExists,
                   initialised, path, done, sizes, snapExists, snapPath,
                   snapVolume, snapVgLv, status>>

\* lines 1196-1205: bup save under the branch of the path
RunSave ==
    /\ pc[Main] = "save"
    /\ \E ok \in BOOLEAN :
         /\ cmds' = Append(cmds, Cmd("save", ok))
         /\ success' = IF ok THEN success ELSE FALSE
    /\ pc' = [pc EXCEPT ![Main] = IF args.check THEN "fsck1" ELSE AfterVerify]
    /\ UNCHANGED <<lockfile, dirWritable, chmodded, procfs, pidfd, fdIno, pidstr,
                   pid, chk, errno, exc, inBody, calls, args, repoExists,
                   initialised, path, done, sizes, snapExists, snapPath,
                   snapVolume, snapVgLv, status>>

\* line 1207: Bup.fsck(args.remote, repair=args.repair)
RunFsck1 ==
    /\ pc[Main] = "fsck1"
    /\ \E ok \in BOOLEAN :
         /\ cmds' = Append(cmds, Cmd(FsckCmd(args.repair), ok))
         /\ pc' = [pc EXCEPT ![Main] = IF ok THEN AfterVerify ELSE "fsck2"]
    /\ UNCHANGED <<lockfile, dirWritable, chmodded, procfs, pidfd, fdIno, pidstr,
                   pid, chk, errno, exc, inBody, calls, args, repoExists,
                   initialised, path, success, done, sizes, snapExists, snapPath,
                   snapVolume, snapVgLv, status>>

\* a second check whose failure is only logged
RunFsck2_OnlyWarns ==
    /\ pc[Main] = "fsck2"
    /\ \E ok \in BOOLEAN : cmds' = Append(cmds, Cmd(FsckCmd(FALSE), ok))
    /\ pc' = [pc EXCEPT ![Main] = AfterVerify]
    /\ UNCHANGED <<lockfile, dirWritable, chmodded, procfs, pidfd, fdIno, pidstr,
                   pid, chk, errno, exc, inBody, calls, args, repoExists,
                   initialised, path, success, done, sizes, snapExists, snapPath,
                   snapVolume, snapVgLv, status>>

\* lines 1212-1216: Bup.fsck(args.remote), whose failure clears the flag
RunFsck2 ==
    /\ pc[Main] = "fsck2"
    /\ \E ok \in BOOLEAN :
         /\ cmds' = Append(cmds, Cmd(FsckCmd(FALSE), ok))
         /\ success' = IF ok THEN success ELSE FALSE
    /\ pc' = [pc EXCEPT ![Main] = AfterVerify]
    /\ UNCHANGED <<lockfile, dirWritable, chmodded, procfs, pidfd, fdIno, pidstr,
                   pid, chk, errno, exc, inBody, calls, args, repoExists,
                   initialised, path, done, sizes, snapExists, snapPath,
                   snapVolume, snapVgLv, status>>

\* lines 1218-1219 with Bup.fsck lines 680-688: the par2 probe, then the
\* generation of the recovery blocks
RunParity ==
    /\ pc[Main] = "parity"
    /\ \/ cmds' = Append(cmds, Cmd("fsck --par2-ok", FALSE))
       \/ \E ok \in BOOLEAN :
            cmds' = cmds \o <<Cmd("fsck --par2-ok", TRUE), Cmd("fsck --generate", ok)>>
    /\ pc' = [pc EXCEPT ![Main] = AfterParity]
    /\ UNCHANGED <<lockfile, dirWritable, chmodded, procfs, pidfd, fdIno, pidstr,
                   pid, chk, errno, exc, inBody, calls, args, repoExists,
                   initialised, path, success, done, sizes, snapExists, snapPath,
                   snapVolume, snapVgLv, status>>

\* BupCronMetaData.last_diff (lines 1099-1101) and __str__ (line 1062): the
\* last sample minus the one before it
LastDiff(s) == s[Len(s)] - s[Len(s) - 1]

\* BupCronMetaData.summary (lines 1103-1104): the last sample minus the first
SummaryDiff(s) == s[Len(s)] - s[1]

\* statistics that keep the last two samples only
RunStats_KeepsTwo ==
    /\ pc[Main] = "stats"
    /\ \/ \E n \in SizeSamples, ok \in BOOLEAN :
            /\ sizes' = <<sizes[Len(sizes)], n>>
            /\ cmds' = Append(cmds, Cmd("notes add", ok))
            /\ UNCHANGED exc
       \/ /\ exc' = [exc EXCEPT ![Main] = Exc("CalledProcessError")]
          /\ UNCHANGED <<sizes, cmds>>
    /\ pc' = [pc EXCEPT ![Main] = "snap_exit"]
    /\ UNCHANGED <<lockfile, dirWritable, chmodded, procfs, pidfd, fdIno, pidstr,
                   pid, chk, errno, inBody, calls, args, repoExists, initialised,
                   path, success, done, snapExists, snapPath, snapVolume, snapVgLv, status>>

\* lines 1221-1224 with BupCronMetaData.save (1127-1161): a size sample
\* (check_output raises when du fails), then the note is added
RunStats ==
    /\ pc[Main] = "stats"
    /\ \/ \E n \in SizeSamples, ok \in BOOLEAN :
            /\ sizes' = Append(sizes, n)
            /\ cmds' = Append(cmds, Cmd("notes add", ok))
            /\ UNCHANGED exc
       \/ /\ exc' = [exc EXCEPT ![Main] = Exc("CalledProcessError")]
          /\ UNCHANGED <<sizes, cmds>>
    /\ pc' = [pc EXCEPT ![Main] = "snap_exit"]
    /\ UNCHANGED <<lockfile, dirWritable, chmodded, procfs, pidfd, fdIno, pidstr,
                   pid, chk, errno, inBody, calls, args, repoExists, initialised,
                   path, success, done, snapExists, snapPath, snapVolume, snapVgLv, status>>

\* a process() that returns from inside the loop, after the first path
RunSnapExit_ReturnsInLoop ==
    /\ pc[Main] = "snap_exit"
    /\ snapExists' = FALSE
    /\ done' = Append(done, RunResult(cmds))
    /\ pc' = [pc EXCEPT ![Main] = "exit"]
    /\ UNCHANGED <<lockfile, dirWritable, chmodded, procfs, pidfd, fdIno, pidstr,
                   pid, chk, errno, exc, inBody, calls, args, repoExists,
                   initialised, path, success, cmds, sizes, snapPath, snapVolume,
                   snapVgLv, status>>

\* Snapshot.__exit__ (lines 369-373): cleanup() is called (a no-op for
\* NoSnapshot, line 375), exists is cleared and the exception in flight
\* propagates; the loop goes on with the next path, and after the last one
\* process() returns (lines 1226-1228) and the with-body of the lock ends
RunSnapExit ==
    /\ pc[Main] = "snap_exit"
    /\ \E o \in (IF args.snapshot = "NO"
                 THEN {[raised |-> "none", exists |-> FALSE, volume |-> snapVolume]}
                 ELSE Cleanup(snapExists, FALSE, snapVgLv, snapVolume)) :
         /\ snapExists' = FALSE
         /\ snapVolume' = o.volume
         /\ exc' = IF o.raised = "none" THEN exc
                   ELSE [exc EXCEPT ![Main] = Exc(o.raised)]
    /\ done' = Append(done, RunResult(cmds))
    /\ IF exc'[Main].type = "none" /\ path < args.npaths
       THEN /\ path' = path + 1
            /\ pc' = [pc EXCEPT ![Main] = "snap_enter"]
       ELSE /\ pc' = [pc EXCEPT ![Main] = "exit"]
            /\ UNCHANGED path
    /\ UNCHANGED <<lockfile, dirWritable, chmodded, procfs, pidfd, fdIno, pidstr,
                   pid, chk, errno, inBody, calls, args, repoExists,
                   initialised, success, cmds, sizes, snapPath, snapVgLv, status>>

\* lines 1275-1278: bail(0) or bail(1) after the lock was released
RunBail ==
    /\ pc[Main] = "done"
    /\ status' = IF success THEN 0 ELSE 1
    /\ pc' = [pc EXCEPT ![Main] = "exited"]
    /\ UNCHANGED <<lockfile, dirWritable, chmodded, procfs, pidfd, fdIno, pidstr,
                   pid, chk, errno, exc, inBody, calls, args, repoExists,
                   initialised, path, success, cmds, done, sizes, snapExists,
                   snapPath, snapVolume, snapVgLv>>

\* a handler that returns from main() as the one of SystemExit does
RunAbort_Returns ==
    /\ pc[Main] = "raised"
    /\ status' = 0
    /\ pc' = [pc EXCEPT ![Main] = "exited"]
    /\ UNCHANGED <<lockfile, dirWritable, chmodded, procfs, pidfd, fdIno, pidstr,
                   pid, chk, errno, exc, inBody, calls, args, repoExists,
                   initialised, path, success, cmds, done, sizes, snapExists,
                   snapPath, snapVolume, snapVgLv>>

\* a handler that removes the lock file whatever the exception
RunAbort_ClearsLock ==
    /\ pc[Main] = "raised"
    /\ status' = 1
    /\ lockfile' = NoFile
    /\ pc' = [pc EXCEPT ![Main] = "exited"]
    /\ UNCHANGED <<dirWritable, chmodded, procfs, pidfd, fdIno, pidstr,
                   pid, chk, errno, exc, inBody, calls, args, repoExists,
                   initialised, path, success, cmds, done, sizes, snapExists,
                   snapPath, snapVolume, snapVgLv>>

\* lines 1267-1268: an exception is raised again and ends the interpreter
\* with a traceback and status 1
RunAbort ==
    /\ pc[Main] = "raised"
    /\ status' = 1
    /\ pc' = [pc EXCEPT ![Main] = "exited"]
    /\ UNCHANGED <<lockfile, dirWritable, chmodded, procfs, pidfd, fdIno, pidstr,
                   pid, chk, errno, exc, inBody, calls, args, repoExists,
                   initialised, path, success, cmds, done, sizes, snapExists,
                   snapPath, snapVolume, snapVgLv>>

\* lock files main() may find: none, an empty one, one of a running
\* process, one of a process that is gone
RunContents == { <<>>, StrNat(7), StrNat(99) }

InitRun ==
    /\ lockfile \in {NoFile} \cup {[ino |-> 1, content |-> c] : c \in RunContents}
    /\ dirWritable \in BOOLEAN
    /\ chmodded = FALSE
    /\ procfs = TRUE
    /\ pidfd = [p \in Procs |-> "unset"]
    /\ fdIno = [p \in Procs |-> 0]
    /\ pidstr = [p \in Procs |-> <<>>]
    /\ pid = [p \in Procs |-> 0]
    /\ chk = [p \in Procs |-> "unset"]
    /\ errno = [p \in Procs |-> "none"]
    /\ exc = [p \in Procs |-> NoExc]
    /\ inBody = [p \in Procs |-> FALSE]
    /\ calls = [p \in Procs |-> 0]
    /\ pc = [p \in Procs |-> IF p = Main THEN "main" ELSE "idle"]
    /\ args \in ArgSets
    /\ repoExists \in BOOLEAN
    /\ initialised = FALSE
    /\ path = 0
    /\ success = TRUE
    /\ cmds = <<>>
    /\ done = <<>>
    /\ sizes = <<>>
    /\ snapExists = FALSE
    /\ snapPath = "src"
    /\ snapVolume = FALSE
    /\ snapVgLv = FALSE
    /\ status = -1
    /\ InitCliIdle
    /\ InitSelIdle
    /\ InitSnapIdle

NextRun ==
    \/ RunInit /\ UNCHANGED <<cliVars, selVars>>
    \/ Enter(Main) /\ UNCHANGED <<runVars, cliVars, selVars>>
    \/ Open1(Main) /\ UNCHANGED <<runVars, cliVars, selVars>>
    \/ Check(Main) /\ UNCHANGED <<runVars, cliVars, selVars>>
    \/ Probe(Main) /\ UNCHANGED <<runVars, cliVars, selVars>>
    \/ Remove(Main) /\ UNCHANGED <<runVars, cliVars, selVars>>
    \/ Retry(Main) /\ UNCHANGED <<runVars, cliVars, selVars>>
    \/ ReadRaise(Main) /\ UNCHANGED <<runVars, cliVars, selVars>>
    \/ Write(Main) /\ UNCHANGED <<runVars, cliVars, selVars>>
    \/ RunClear /\ UNCHANGED <<cliVars, selVars>>
    \/ RunProcess /\ UNCHANGED <<cliVars, selVars>>
    \/ RunSnapEnter /\ UNCHANGED <<cliVars, selVars>>
    \/ RunIndex /\ UNCHANGED <<cliVars, selVars>>
    \/ RunSave /\ UNCHANGED <<cliVars, selVars>>
    \/ RunFsck1 /\ UNCHANGED <<cliVars, selVars>>
    \/ RunFsck2 /\ UNCHANGED <<cliVars, selVars>>
    \/ RunParity /\ UNCHANGED <<cliVars, selVars>>
    \/ RunStats /\ UNCHANGED <<cliVars, selVars>>
    \/ RunSnapExit /\ UNCHANGED <<cliVars, selVars>>
    \/ Exit(Main) /\ UNCHANGED <<runVars, cliVars, selVars>>
    \/ RunBail /\ UNCHANGED <<cliVars, selVars>>
    \/ RunAbort /\ UNCHANGED <<cliVars, selVars>>

SpecRun == InitRun /\ [][NextRun]_vars

(* ================= the command line and the commands =================== *)
(* Texts are sequences of one-character strings, as the lock file's are.   *)
Uppers == <<"A", "B", "C", "D", "E", "F", "G", "H", "I", "J", "K", "L", "M",
            "N", "O", "P", "Q", "R", "S", "T", "U", "V", "W", "X", "Y", "Z">>

Lowers == <<"a", "b", "c", "d", "e", "f", "g", "h", "i", "j", "k", "l", "m",
            "n", "o", "p", "q", "r", "s", "t", "u", "v", "w", "x", "y", "z">>

\* str.lower()
Lower(s) ==
    [i \in 1..Len(s) |->
        IF \E k \in 1..26 : Uppers[k] = s[i]
        THEN Lowers[CHOOSE k \in 1..26 : Uppers[k] = s[i]]
        ELSE s[i]]

\* a in b, for two texts
IsSubstring(a, b) ==
    \E i \in 0..(Len(b) - Len(a)) : SubSeq(b, i + 1, i + Len(a)) = a

\* c in s, for a character c
Contains(s, c) == \E i \in 1..Len(s) : s[i] = c

\* s.replace(old, new), for characters old and new
Replace(s, old, new) ==
    [i \in 1..Len(s) |-> IF s[i] = old THEN new ELSE s[i]]

\* Snapshot.__subclasses__() in the order the classes are defined (lines
\* 388 and 396; VssSnapshot exists under Cygwin only, line 550)
Subclasses ==
    << [cls |-> "NoSnapshot",
        name |-> <<"N", "o", "S", "n", "a", "p", "s", "h", "o", "t">>],
       [cls |-> "LvmSnapshot",
        name |-> <<"L", "v", "m", "S", "n", "a", "p", "s", "h", "o", "t">>] >>

\* the names of the variants (ArgumentConfigParser.snapshot_names, line 57)
VariantNames == { <<"n", "o">>, <<"l", "v", "m">> }

\* Snapshot.select (lines 379-385): the first subclass whose lower-cased
\* class name contains the lower-cased name; TypeError when there is none
Select(name) ==
    LET hits == {k \in 1..Len(Subclasses) :
                    IsSubstring(Lower(name), Lower(Subclasses[k].name))}
    IN IF hits = {} THEN "TypeError"
       ELSE Subclasses[CHOOSE k \in hits : \A j \in hits : k <= j].cls

\* socket.gethostname() of the host the run is on
Hostname == <<"m", "y", "h", "o", "s", "t">>

\* a branch name without the dash between the name and the path
Branch_NoDash(branch_name, name, hostname, src_path) ==
    IF branch_name # <<>> THEN branch_name
    ELSE (IF name # <<>> THEN name ELSE hostname) \o Replace(src_path, "/", "_")

\* lines 1196-1202: the branch a path is saved under
Branch(branch_name, name, hostname, src_path) ==
    IF branch_name # <<>> THEN branch_name
    ELSE (IF name # <<>> THEN name ELSE hostname)
         \o <<"-">> \o Replace(src_path, "/", "_")

\* a command: the program, its options in order (a flag and the text that
\* follows it, empty for a flag alone) and the paths at its end
Opt(flag, val) == [flag |-> flag, val |-> val]

NoCmd == [prog |-> "", opts |-> <<>>, paths |-> <<>>]

\* Bup.init (lines 657-662) without a remote repository
InitCmd == [prog |-> "bup init", opts |-> <<>>, paths |-> <<>>]

\* Bup.index (lines 699-719) without exclusions
IndexCmd(pth, verbose) ==
    [prog |-> "bup index",
     opts |-> (IF verbose >= 3 THEN <<Opt("--verbose", <<>>)>> ELSE <<>>)
              \o <<Opt("--one-file-system", <<>>)>>,
     paths |-> <<pth>>]

\* a save that always strips the path
SaveCmd_AlwaysStrip(paths, branch, graft, remote_rep, verbose) ==
    [prog |-> "bup save",
     opts |-> (IF verbose <= 0 THEN <<Opt("--quiet", <<>>)>>
               ELSE IF verbose >= 3 THEN <<Opt("--verbose", <<>>)>> ELSE <<>>)
              \o (IF remote_rep # <<>> THEN <<Opt("-r", remote_rep)>> ELSE <<>>)
              \o <<Opt("--name", branch)>>
              \o <<Opt("--strip-path", graft)>>
              \o (IF verbose >= 2
                  THEN <<Opt("--tree", <<>>), Opt("--commit", <<>>)>> ELSE <<>>),
     paths |-> paths]

\* Bup.save (lines 722-741)
SaveCmd(paths, branch, graft, remote_rep, verbose) ==
    [prog |-> "bup save",
     opts |-> (IF verbose <= 0 THEN <<Opt("--quiet", <<>>)>>
               ELSE IF verbose >= 3 THEN <<Opt("--verbose", <<>>)>> ELSE <<>>)
              \o (IF remote_rep # <<>> THEN <<Opt("-r", remote_rep)>> ELSE <<>>)
              \o <<Opt("--name", branch)>>
              \o (IF Contains(graft, "=") THEN <<Opt("--graft", graft)>>
                  ELSE <<Opt("--strip-path", graft)>>)
              \o (IF verbose >= 2
                  THEN <<Opt("--tree", <<>>), Opt("--commit", <<>>)>> ELSE <<>>),
     paths |-> paths]

\* a parser that accepts an empty list of paths
ParseArgs_NoPathCheck(c) ==
    IF ~c.repository THEN "error"
    ELSE IF c.name # <<>> /\ c.branch_name # <<>> THEN "error"
    ELSE "ok"

\* ArgumentConfigParser.parse_args (lines 280-319): the three checks that
\* end in self.error(), in their order; the paths given with -p are part of
\* c.paths (lines 305-306)
ParseArgs(c) ==
    IF ~c.repository THEN "error"
    ELSE IF c.name # <<>> /\ c.branch_name # <<>> THEN "error"
    ELSE IF Len(c.paths) < 1 THEN "error"
    ELSE "ok"

\* what the run has done: an event, the command it ran, its outcome
Ev(e, cmd, ok) == [ev |-> e, cmd |-> cmd, ok |-> ok]

RECURSIVE CountEv(_, _)
CountEv(l, e) == IF l = <<>> THEN 0
                 ELSE (IF Head(l).ev = e THEN 1 ELSE 0) + CountEv(Tail(l), e)

\* the path the loop of process() is at: one more than the snapshot scopes
\* that were left
CliPath == CountEv(clog, "cleanup") + 1

\* the success flag of process(): set at line 1165, cleared by a failed
\* index (1193) and by a failed save (1205)
CliSuccess == \A k \in 1..Len(clog) : clog[k].ok

\* the snapshot handle of a path (Snapshot.__init__, lines 354-355, entered
\* by NoSnapshot)
CliHandle(p) == [cls |-> Select(<<"N", "O">>), src_path |-> p, path |-> p]

\* where the loop of process() goes when the scope of path k is left
AfterPath(k) == IF k < Len(conf.paths) THEN "path" ELSE "unlock"

\* lines 1245: parse_args(); self.error() ends the process with status 2
CliParse ==
    /\ cpc = "main"
    /\ IF ParseArgs(conf) = "error"
       THEN cstatus' = 2 /\ cpc' = "exited"
       ELSE cpc' = "init" /\ UNCHANGED cstatus
    /\ UNCHANGED <<conf, clog>>

\* lines 1252-1257: Bup.init when the repository directory is absent;
\* bail(3) is caught at line 1265 and main returns
CliInit ==
    /\ cpc = "init"
    /\ IF conf.repoExists
       THEN cpc' = "lock" /\ UNCHANGED <<clog, cstatus>>
       ELSE \E ok \in BOOLEAN :
              /\ clog' = Append(clog, Ev("init", InitCmd, ok))
              /\ IF ok THEN cpc' = "lock" /\ UNCHANGED cstatus
                 ELSE cstatus' = 0 /\ cpc' = "exited"
    /\ UNCHANGED conf

\* line 1259 with Pidfile.create (lines 784-815) when no lock file exists
\* and the directory is writable: the file is created and the pid written
CliLock ==
    /\ cpc = "lock"
    /\ clog' = Append(clog, Ev("lock", NoCmd, TRUE))
    /\ cpc' = "path"
    /\ UNCHANGED <<conf, cstatus>>

\* lines 1170-1194: the snapshot object of the path is selected and
\* entered, its path is indexed; after a failed index `continue` leaves the
\* snapshot scope
CliIndex ==
    /\ cpc = "path"
    /\ LET h == CliHandle(conf.paths[CliPath])
       IN \E ok \in BOOLEAN :
            /\ clog' = clog \o <<Ev("index", IndexCmd(h.path, conf.verbose), ok)>>
                            \o (IF ok THEN <<>> ELSE <<Ev("cleanup", NoCmd, TRUE)>>)
            /\ cpc' = IF ok THEN "save" ELSE AfterPath(CliPath)
    /\ UNCHANGED <<conf, cstatus>>

\* lines 1196-1205 and, with neither check, parity nor statistics asked
\* for, the end of the snapshot scope (lines 369-373)
CliSave ==
    /\ cpc = "save"
    /\ LET h == CliHandle(conf.paths[CliPath])
           branch == Branch(conf.branch_name, conf.name, Hostname, h.src_path)
       IN \E ok \in BOOLEAN :
            clog' = clog \o <<Ev("save", SaveCmd(<<h.path>>, branch, h.path, <<>>,
                                                 conf.verbose), ok),
                              Ev("cleanup", NoCmd, TRUE)>>
    /\ cpc' = AfterPath(CliPath)
    /\ UNCHANGED <<conf, cstatus>>

\* Pidfile.__exit__ (lines 767-772) when process() has returned
CliUnlock ==
    /\ cpc = "unlock"
    /\ clog' = Append(clog, Ev("unlock", NoCmd, TRUE))
    /\ cpc' = "bail"
    /\ UNCHANGED <<conf, cstatus>>

\* lines 1275-1278
CliBail ==
    /\ cpc = "bail"
    /\ cstatus' = IF CliSuccess THEN 0 ELSE 1
    /\ cpc' = "exited"
    /\ UNCHANGED <<conf, clog>>

\* the paths, names and verbosities of a command line
CliPaths == { <<"/", "h", "o", "m", "e">>, <<"/", "s", "r", "v", "/", "a">>,
              <<"/", "a", "=", "b">> }

PathLists == UNION { [1..k -> CliPaths] : k \in 0..MaxPaths }

CliNames == { <<>>, <<"b", "k">> }

CliBranchNames == { <<>>, <<"b", "r">> }

Verbosities == {0, 2, 3}

\* the lock and the pipeline of SpecRun at rest
InitLockIdle ==
    /\ lockfile = NoFile
    /\ dirWritable = TRUE
    /\ chmodded = FALSE
    /\ procfs = TRUE
    /\ pidfd = [p \in Procs |-> "unset"]
    /\ fdIno = [p \in Procs |-> 0]
    /\ pidstr = [p \in Procs |-> <<>>]
    /\ pid = [p \in Procs |-> 0]
    /\ chk = [p \in Procs |-> "unset"]
    /\ errno = [p \in Procs |-> "none"]
    /\ exc = [p \in Procs |-> NoExc]
    /\ inBody = [p \in Procs |-> FALSE]
    /\ calls = [p \in Procs |-> 0]

InitCli ==
    /\ InitLockIdle
    /\ pc = [p \in Procs |-> "idle"]
    /\ InitRunIdle
    /\ InitSelIdle
    /\ InitSnapIdle
    /\ conf \in [paths : PathLists, name : CliNames, branch_name : CliBranchNames,
                 repository : BOOLEAN, repoExists : BOOLEAN,
                 verbose : Verbosities]
    /\ cpc = "main"
    /\ clog = <<>>
    /\ cstatus = -1

NextCli ==
    \/ CliParse /\ UNCHANGED <<lockVars, runVars, selVars>>
    \/ CliInit /\ UNCHANGED <<lockVars, runVars, selVars>>
    \/ CliLock /\ UNCHANGED <<lockVars, runVars, selVars>>
    \/ CliIndex /\ UNCHANGED <<lockVars, runVars, selVars>>
    \/ CliSave /\ UNCHANGED <<lockVars, runVars, selVars>>
    \/ CliUnlock /\ UNCHANGED <<lockVars, runVars, selVars>>
    \/ CliBail /\ UNCHANGED <<lockVars, runVars, selVars>>

SpecCli == InitCli /\ [][NextCli]_vars

(* ------------------------- Snapshot.select ----------------------------- *)
MaxName == 3

\* the characters of the names tried
SelChars == {"n", "o", "N", "l", "v", "m", "s", "x"}

SelNames == UNION { [1..k -> SelChars] : k \in 0..MaxName }

InitSelect ==
    /\ InitLockIdle
    /\ pc = [p \in Procs |-> "idle"]
    /\ InitRunIdle
    /\ InitCliIdle
    /\ InitSnapIdle
    /\ selName \in SelNames
    /\ selResult = "unset"

\* one call of Snapshot.select(selName)
CallSelect ==
    /\ selResult = "unset"
    /\ selResult' = Select(selName)
    /\ UNCHANGED <<selName, lvmHost, snapRuns>>

NextSelect == CallSelect /\ UNCHANGED <<lockVars, runVars, cliVars>>

SpecSelect == InitSelect /\ [][NextSelect]_vars

(* ------------------- the snapshot scope, run after run ----------------- *)
MaxRuns == 2

\* a new process makes a new snapshot object for the path (lines 1171-1179
\* with Snapshot.__init__, lines 331-356); what is on the host stays
InitSnap ==
    /\ InitLockIdle
    /\ InitCliIdle
    /\ selName = <<>>
    /\ selResult = "unset"
    /\ lvmHost \in [onLvm : BOOLEAN, mountRuns : BOOLEAN, lvsRuns : BOOLEAN,
                    stale : BOOLEAN]
    /\ snapRuns = 1
    /\ args = [clear |-> FALSE, check |-> FALSE, repair |-> FALSE,
               parity |-> FALSE, stats |-> FALSE, snapshot |-> "LVM", npaths |-> 1]
    /\ repoExists = TRUE
    /\ initialised = FALSE
    /\ path = 1
    /\ success = TRUE
    /\ cmds = <<>>
    /\ done = <<>>
    /\ sizes = <<>>
    /\ snapExists = FALSE
    /\ snapPath = "src"
    /\ snapVolume = lvmHost.stale
    /\ snapVgLv = FALSE
    /\ status = -1
    /\ pc = [p \in Procs |-> IF p = Main THEN "snap_enter" ELSE "idle"]

\* LvmSnapshot.__enter__ (lines 397-460) on the host: find_device never
\* gets to read what `mount` prints, so that it makes no difference whether
\* the path is on a logical volume
SnapEnter ==
    /\ pc[Main] = "snap_enter"
    /\ LET h == LvmEnter(lvmHost.mountRuns, lvmHost.lvsRuns, snapVolume)
       IN /\ snapExists' = h.exists
          /\ snapPath' = h.path
          /\ snapVgLv' = h.vg_lv
          /\ snapVolume' = h.volume
          /\ IF h.raised = "none"
             THEN /\ pc' = [pc EXCEPT ![Main] = "snap_body"]
                  /\ UNCHANGED exc
             ELSE /\ exc' = [exc EXCEPT ![Main] = Exc(h.raised)]
                  /\ pc' = [pc EXCEPT ![Main] = "snap_left"]
    /\ UNCHANGED <<lockfile, dirWritable, chmodded, procfs, pidfd, fdIno, pidstr,
                   pid, chk, errno, inBody, calls, args, repoExists, initialised,
                   path, success, cmds, done, sizes, status, lvmHost, snapRuns>>

\* the body of the with statement (lines 1180-1224) ends, normally or with
\* an exception
SnapBody ==
    /\ pc[Main] = "snap_body"
    /\ \E raised \in BOOLEAN :
         exc' = IF raised THEN [exc EXCEPT ![Main] = Exc("CalledProcessError")]
                ELSE exc
    /\ pc' = [pc EXCEPT ![Main] = "snap_exit"]
    /\ UNCHANGED <<lockfile, dirWritable, chmodded, procfs, pidfd, fdIno, pidstr,
                   pid, chk, errno, inBody, calls, lvmHost, snapRuns>>
    /\ UNCHANGED runVars

\* the process is killed inside the snapshot scope: nothing of lines
\* 369-373 runs
SnapKill ==
    /\ pc[Main] = "snap_body"
    /\ pc' = [pc EXCEPT ![Main] = "snap_left"]
    /\ UNCHANGED <<lockfile, dirWritable, chmodded, procfs, pidfd, fdIno, pidstr,
                   pid, chk, errno, exc, inBody, calls, lvmHost, snapRuns>>
    /\ UNCHANGED runVars

\* Snapshot.__exit__ (lines 369-373) with LvmSnapshot.cleanup
SnapExit ==
    /\ pc[Main] = "snap_exit"
    /\ \E o \in Cleanup(snapExists, FALSE, snapVgLv, snapVolume) :
         /\ snapExists' = FALSE
         /\ snapVolume' = o.volume
         /\ exc' = IF o.raised = "none" THEN exc
                   ELSE [exc EXCEPT ![Main] = Exc(o.raised)]
    /\ pc' = [pc EXCEPT ![Main] = "snap_left"]
    /\ UNCHANGED <<lockfile, dirWritable, chmodded, procfs, pidfd, fdIno, pidstr,
                   pid, chk, errno, inBody, calls, args, repoExists, initialised,
                   path, success, cmds, done, sizes, snapPath, snapVgLv, status,
                   lvmHost, snapRuns>>

\* the next run on the same path: a new process and a new snapshot object
\* (Snapshot.__init__, lines 331-356)
SnapNextRun ==
    /\ pc[Main] = "snap_left"
    /\ snapRuns < MaxRuns
    /\ snapRuns' = snapRuns + 1
    /\ snapExists' = FALSE
    /\ snapPath' = "src"
    /\ snapVgLv' = FALSE
    /\ exc' = [exc EXCEPT ![Main] = NoExc]
    /\ pc' = [pc EXCEPT ![Main] = "snap_enter"]
    /\ UNCHANGED <<lockfile, dirWritable, chmodded, procfs, pidfd, fdIno, pidstr,
                   pid, chk, errno, inBody, calls, args, repoExists, initialised,
                   path, success, cmds, done, sizes, snapVolume, status, lvmHost>>

NextSnap ==
    \/ SnapEnter /\ UNCHANGED <<cliVars, selName, selResult>>
    \/ SnapBody /\ UNCHANGED <<cliVars, selName, selResult>>
    \/ SnapKill /\ UNCHANGED <<cliVars, selName, selResult>>
    \/ SnapExit /\ UNCHANGED <<cliVars, selName, selResult>>
    \/ SnapNextRun /\ UNCHANGED <<cliVars, selName, selResult>>

SpecSnap == InitSnap /\ [][NextSnap]_vars

(* ------------------------------ C1 ------------------------------------- *)
\* a process is between a successful acquire and its release
Holding(p) == inBody[p] /\ pc[p] \notin {"done", "raised", "exited"}

\* C1: at no time are two processes both between a successful acquire and
\* their release of the same lock file
C1_MutualExclusion == \A p, q \in Procs : Holding(p) /\ Holding(q) => p = q

(* ------------------------------ C2 ------------------------------------- *)
\* no other process has started to use the lock
Solo(p) == \A q \in Procs \ {p} : pc[q] = "idle"

\* process p takes the step that ends _check's liveness probe
ProbeStep(p) == pc[p] = "probe" /\ pc'[p] \notin {"probe", "exited"}

\* create() of p has failed
Failed(p) == pc[p] \in {"raised", "exit"}

C2_Probe ==
    \A p \in Procs : ProbeStep(p) /\ pid[p] > 0 =>
        /\ Alive(pid[p]) =>
              /\ Failed(p)'
              /\ exc'[p] = ProcessRunningException(pid[p])
              /\ lockfile' = lockfile
        /\ pc'[p] = "remove" => ~Alive(pid[p])

C2_Carries ==
    \A p \in Procs : exc[p].type = "PRE" =>
        /\ exc[p].pid = pid[p]
        /\ \E i \in 1..Len(pidstr[p]) : IsDigit(pidstr[p][i])
        /\ pidstr[p] \in {StrNat(pid[p]), StrNat(pid[p]) \o <<"\n">>}

C2_SecondAcquire ==
    \A p \in Procs :
        Solo(p) /\ calls[p] = 2 /\ pc[p] \notin {"open1", "check", "probe"} =>
            /\ Failed(p)
            /\ exc[p] = ProcessRunningException(Getpid(p))
            /\ lockfile = [ino |-> fdIno[p], content |-> StrNat(Getpid(p))]

\* C2: when the lock file holds the id of a process (an integer > 0) that
\* is running, be it confirmed or be the probing signal refused for lack of
\* permission, create fails with ProcessRunningException carrying that id
\* and leaves the file alone; the lock is taken for stale only when no such
\* process runs; a second create in the same process, with no release and
\* nobody else using the lock, fails and reports the process's own id
C2_HeldLockRefused ==
    /\ [][C2_Probe]_vars
    /\ [](C2_Carries /\ C2_SecondAcquire)

\* create failed on the id of another user's process, which /proc does not
\* show and which may not be signalled
C2_Witness ==
    \E p \in Procs :
        /\ pc[p] = "raised"
        /\ ~procfs
        /\ exc[p].type = "PRE" /\ exc[p].pid \in ExtOtherUser
        /\ lockfile.ino = 1

(* ------------------------------ C3 ------------------------------------- *)
\* a text without any digit: empty, or not a number
NonNumeric(s) == \A i \in 1..Len(s) : ~IsDigit(s[i])

\* the steps of create(), recognised by the move of the process
CheckStep(p) == pc[p] = "check" /\ pc'[p] \notin {"check", "exited"}

RemoveStep(p) == pc[p] = "remove" /\ pc'[p] \notin {"remove", "exited"}

RetryStep(p) == pc[p] = "retry" /\ pc'[p] \notin {"retry", "exited"}

WriteStep(p) == pc[p] = "write" /\ pc'[p] \notin {"write", "exited"}

C3_Steps ==
    \A p \in Procs :
        /\ CheckStep(p) /\ lockfile.ino # 0 /\ NonNumeric(lockfile.content) =>
              pc'[p] = "remove" /\ chk'[p] = "false" /\ lockfile' = lockfile
        /\ RemoveStep(p) /\ lockfile.ino # 0 /\ dirWritable =>
              pc'[p] = "retry" /\ lockfile' = NoFile
        /\ RetryStep(p) /\ lockfile.ino = 0 /\ dirWritable =>
              /\ pc'[p] = "write" /\ pidfd'[p] = "open"
              /\ lockfile' = [ino |-> fdIno'[p], content |-> <<>>]
              /\ lockfile'.ino \notin {0, 1}
        /\ WriteStep(p) /\ pidfd[p] = "open" /\ lockfile.ino = fdIno[p] =>
              /\ pc'[p] = "body"
              /\ lockfile' = [ino |-> fdIno[p], content |-> StrNat(Getpid(p))]

C3_Solo ==
    \A p \in Procs :
        Solo(p) /\ calls[p] = 1 /\ chk[p] = "false" /\ NonNumeric(pidstr[p]) =>
            /\ pc[p] \in {"remove", "retry", "write", "readraise", "raised"}
            /\ pc[p] = "retry" => lockfile = NoFile
            /\ pc[p] = "write" =>
                  pidfd[p] = "open" /\ lockfile = [ino |-> fdIno[p], content |-> <<>>]
            /\ pc[p] \in {"readraise", "raised"} => errno[p] = "EACCES"

\* C3: a lock file whose text is no integer (empty or not numeric) is taken
\* for stale: _check returns False, the removal deletes the file when the
\* directory permits it, the retry creates a new file and the write puts
\* the caller's id into it and returns; with nobody else using the lock the
\* acquire fails only when the directory refuses the removal or the creation
C3_UnparsableIsStale ==
    /\ [][C3_Steps]_vars
    /\ []C3_Solo

\* an acquirer has read an empty lock file, removed it and created its own
C3_Witness ==
    \E p \in Procs :
        /\ pc[p] = "write"
        /\ chk[p] = "false" /\ pidstr[p] = <<>>
        /\ pidfd[p] = "open" /\ lockfile = [ino |-> fdIno[p], content |-> <<>>]

(* ------------------------------ C4 ------------------------------------- *)
\* C4 as claimed: whenever the removal of the stale file or the retried
\* creation is refused (EACCES), create fails with ProcessRunningException
\* carrying the text of the lock file, and the file is left in place
C4_RefusedKeepsFile ==
    \A p \in Procs :
        Solo(p) /\ calls[p] = 1 /\ pc[p] = "raised" /\ chk[p] = "false"
                /\ pid[p] > 0 /\ errno[p] = "EACCES" =>
            /\ exc[p].type = "PRE_raw"
            /\ lockfile.ino # 0
            /\ exc[p].raw = lockfile.content

(* ------------------------------ C5 ------------------------------------- *)
\* the step of Pidfile.__exit__ of the run
ExitStep == pc[Main] = "exit" /\ pc'[Main] # "exit"

IsPRE(e) == e.type \in {"PRE", "PRE_raw"}

C5_Release ==
    ExitStep =>
        /\ lockfile.ino = fdIno[Main]
        /\ lockfile' = NoFile
        /\ exc'[Main] = exc[Main]
        /\ pc'[Main] = IF exc[Main].type = "none" THEN "done" ELSE "raised"

C5_NotOurs ==
    IsPRE(exc[Main]) =>
        /\ ~inBody[Main]
        /\ pc[Main] \in {"raised", "exited"}
        /\ lockfile.ino = 1

\* C5: when the guarded body of main() completes, the lock file this run
\* created is removed; when the body fails with an exception the file is
\* removed as well and the exception propagates; when the acquisition
\* failed with ProcessRunningException the file found at the start is still
\* there when the run ends
C5_ReleaseRules ==
    /\ [][C5_Release]_vars
    /\ []C5_NotOurs

\* the body failed after the lock was taken, and the lock file is gone
C5_Witness ==
    /\ pc[Main] = "raised"
    /\ inBody[Main]
    /\ exc[Main].type = "CalledProcessError"
    /\ Len(done) = 1
    /\ lockfile = NoFile

(* ------------------------------ C6 ------------------------------------- *)
\* process() has returned: every path has a result and nothing was raised
Returned ==
    /\ inBody[Main]
    /\ pc[Main] \in {"exit", "done", "exited"}
    /\ exc[Main].type = "none"
    /\ Len(done) = args.npaths

PathSucceeded(r) == r.index /\ r.save /\ r.verify

\* C6: when process() returns, its result is success iff every path
\* succeeded (index, save, and the verification did not end in failure),
\* whatever the order of the paths; the run then exits with status 0 iff
\* the result is success and with status 1 otherwise
C6_SuccessIsConjunction ==
    Returned =>
        /\ success <=> \A k \in 1..Len(done) : PathSucceeded(done[k])
        /\ pc[Main] = "exited" => status = IF success THEN 0 ELSE 1

\* a run of two paths has ended with status 1: the first path failed in its
\* verification only, the second succeeded
C6_Witness ==
    /\ Returned
    /\ pc[Main] = "exited" /\ status = 1
    /\ Len(done) >= 2
    /\ done[1] = [index |-> TRUE, save |-> TRUE, verify |-> FALSE]
    /\ PathSucceeded(done[2])

(* ------------------------------ C7 ------------------------------------- *)
IndexFailed(c) == c # <<>> /\ c[1].cmd = "index" /\ ~c[1].ok

\* C7 as claimed: after a failed index nothing else is invoked for the path,
\* and a run in which the index of a path failed ends with status 1 after
\* every configured path has been through its snapshot scope
C7_IndexFailureIsLocal ==
    /\ IndexFailed(cmds) =>
          /\ Len(cmds) = 1
          /\ pc[Main] \notin {"save", "fsck1", "fsck2", "parity", "stats"}
    /\ (pc[Main] = "exited" /\ \E k \in 1..Len(done) : ~done[k].index) =>
          /\ status = 1
          /\ ~snapExists
          /\ Len(done) = args.npaths

(* ------------------------------ C8 ------------------------------------- *)
\* the verification of the current path is over
VerifyOver == pc[Main] \in {"parity", "stats", "snap_exit"} /\ IndexOk(cmds)

NumRepairs(v) == Cardinality({k \in 1..Len(v) : v[k].cmd = "fsck --repair"})

\* C8 as claimed: with verification configured, the verification of a path
\* starts with fsck --quick; fsck --repair is invoked at most once and only
\* after a failed fsck --quick; after a failed verify exactly one re-check
\* ends the verification, and the path is failed by it iff the re-check fails
C8_RepairAfterFailedVerify ==
    LET v == VerifyOf(cmds)
    IN args.check /\ v # <<>> =>
         /\ v[1].cmd = "fsck --quick"
         /\ NumRepairs(v) <= 1
         /\ \A k \in 1..Len(v) : v[k].cmd = "fsck --repair" =>
               k > 1 /\ v[1].cmd = "fsck --quick" /\ ~v[1].ok
         /\ VerifyOver /\ ~v[1].ok =>
               /\ v[Len(v)].cmd = "fsck --quick"
               /\ Len(v) = 2 + NumRepairs(v)
               /\ ~v[Len(v)].ok => ~success

(* ------------------------------ C9 ------------------------------------- *)
\* C9 as claimed: without repair, fsck --repair is never invoked, and a
\* failed check fails the path at once: the flag is cleared and no further
\* check of the path follows
C9_FailedCheckIsFinal ==
    args.check /\ ~args.repair =>
        /\ \A k \in 1..Len(cmds) : cmds[k].cmd # "fsck --repair"
        /\ \A k \in 1..Len(cmds) :
              cmds[k].cmd = "fsck --quick" /\ ~cmds[k].ok =>
                  /\ ~success
                  /\ \A j \in (k + 1)..Len(cmds) : cmds[j].cmd \notin VerifyCmds

(* ------------------------------ C10 ------------------------------------ *)
SaveFailed(c) == \E k \in 1..Len(c) : c[k].cmd = "save" /\ ~c[k].ok

SaveStep == pc[Main] = "save" /\ pc'[Main] # "save"

C10_Step ==
    /\ SaveStep /\ SaveFailed(cmds') =>
          /\ ~success'
          /\ args.check => pc'[Main] = "fsck1"
    /\ pc[Main] # "process" /\ ~success => ~success'

C10_Inv ==
    SaveFailed(cmds) =>
        /\ ~success
        /\ pc[Main] # "snap_enter" /\ pc[Main] # "fsck1" /\ args.check =>
              VerifyOf(cmds) # <<>>

\* C10: a failed save clears the success flag, which stays cleared for the
\* rest of the run whatever the verification yields, and does not skip the
\* verification: when it is configured, fsck is the next command of the path
C10_SaveFailureContinues ==
    /\ [][C10_Step]_vars
    /\ []C10_Inv

\* the save of a path failed, the verification ran after it and passed, and
\* the flag is cleared
C10_Witness ==
    /\ pc[Main] = "snap_exit"
    /\ Len(cmds) = 3
    /\ cmds[2] = Cmd("save", FALSE)
    /\ cmds[3] = Cmd("fsck --quick", TRUE)
    /\ ~success

(* ------------------------------ C11 ------------------------------------ *)
ParityCmds == {"fsck --par2-ok", "fsck --generate"}

\* the par2 probe was invoked for the current path
ParityTried(c) == \E k \in 1..Len(c) : c[k].cmd = "fsck --par2-ok"

ParityStep == pc[Main] = "parity" /\ pc'[Main] # "parity"

\* the path is past the place of the parity generation
PastParity == pc[Main] \notin {"index", "save", "fsck1", "fsck2", "parity"}

C11_Step ==
    ParityStep =>
        /\ success' = success
        /\ Len(cmds') > Len(cmds)
        /\ \A k \in (Len(cmds) + 1)..Len(cmds') : cmds'[k].cmd \in ParityCmds
        /\ pc'[Main] \in {"stats", "snap_exit"}

C11_Inv ==
    /\ args.parity /\ IndexOk(cmds) /\ PastParity => ParityTried(cmds)
    /\ ParityTried(cmds) => args.parity /\ IndexOk(cmds)

\* C11: with parity configured, the par2 probe is invoked for every path
\* whose index succeeded, whatever save and the verification returned, and
\* for no other path; the step that runs it (probe failed, generation
\* failed or succeeded) leaves the success flag as it was and goes on with
\* the path
C11_ParityIsIndependent ==
    /\ [][C11_Step]_vars
    /\ []C11_Inv

\* the save and the verification of a path failed, and the generation of
\* the recovery blocks was attempted for it and failed
C11_Witness ==
    /\ pc[Main] = "snap_exit"
    /\ Len(cmds) = 6
    /\ cmds[2] = Cmd("save", FALSE)
    /\ cmds[4] = Cmd("fsck --quick", FALSE)
    /\ cmds[6] = Cmd("fsck --generate", FALSE)
    /\ ~success

(* ------------------------------ C12 ------------------------------------ *)
\* the snapshot scope of path k was left, one way or another
ScopeLeft(k) ==
    \/ k < path
    \/ k = path /\ pc[Main] \in {"exit", "done", "raised", "exited"}

\* the enter of the snapshot of the current path raised: process() was left
\* from a scope whose __exit__ never ran
EnterRaised == path >= 1 /\ ScopeLeft(path) /\ Len(done) < path

\* C12 as claimed: the enter of the snapshot never raises; it returns a
\* handle, which without a snapshot has the source path, and the index of
\* the path is attempted next
C12_SnapshotNeverFatal ==
    /\ ~EnterRaised
    /\ pc[Main] = "index" /\ ~snapExists => snapPath = "src"

(* ------------------------------ C13 ------------------------------------ *)
\* no snapshot scope is open
OutsideScope == pc[Main] \in {"main", "idle", "open1", "check", "probe", "remove",
                              "retry", "readraise", "write", "body", "process",
                              "snap_enter", "exit", "done", "raised", "exited"}

\* C13 as claimed: for every snapshot scope that was left, be it after the
\* pipeline, after a failed index, after an exception in the pipeline or
\* after a failure of enter, the cleanup of __exit__ has run, and outside
\* the scopes no snapshot or snapshot volume of this run exists
C13_CleanupOnEveryExit ==
    /\ \A k \in 1..path : ScopeLeft(k) => Len(done) >= k
    /\ OutsideScope => ~snapExists /\ ~snapVolume

(* ------------------------------ C14 ------------------------------------ *)
\* a handle of LvmSnapshot has been entered and not yet left
HandleEntered ==
    /\ args.snapshot = "LVM"
    /\ pc[Main] \in {"index", "save", "fsck1", "fsck2", "parity", "stats", "snap_exit"}

SnapExitStep == pc[Main] = "snap_exit" /\ pc'[Main] # "snap_exit"

C14_Twice ==
    HandleEntered =>
        \A o1 \in Cleanup(snapExists, FALSE, snapVgLv, snapVolume) :
            /\ o1.raised = "none"
            /\ \A o2 \in Cleanup(o1.exists, FALSE, snapVgLv, o1.volume) :
                  /\ o2.raised = "none"
                  /\ o2.exists = o1.exists /\ o2.volume = o1.volume
                  /\ ~o2.exists /\ ~o2.volume

C14_Step ==
    SnapExitStep => exc' = exc /\ ~snapExists' /\ ~snapVolume'

LockHeld ==
    /\ inBody[Main]
    /\ lockfile = [ino |-> fdIno[Main], content |-> StrNat(Getpid(Main))]
    /\ lockfile.ino \notin {0, 1}

\* a step of the guarded body: clear-index, the statistics, a snapshot
\* enter or exit, index, save, fsck
BodyStep ==
    /\ pc[Main] \in {"body", "process", "snap_enter", "index", "save", "fsck1",
                     "fsck2", "parity", "stats", "snap_exit"}
    /\ pc'[Main] # pc[Main]

C15_Step ==
    /\ BodyStep => LockHeld /\ lockfile' = lockfile
    /\ ExitStep /\ exc[Main].type = "none" =>
          /\ Len(done) = args.npaths
          /\ pc[Main] = "exit" /\ ~snapExists
    /\ calls'[Main] # calls[Main] => calls[Main] = 0 /\ path = 0 /\ pc[Main] = "idle"

C15_Inv ==
    /\ calls[Main] <= 1
    /\ ~inBody[Main] => path = 0 /\ cmds = <<>> /\ done = <<>> /\ sizes = <<>>
    /\ path >= 1 /\ pc[Main] \notin {"done", "raised", "exited"} => LockHeld

\* C15: the run calls create() once, before anything of the body; every
\* step of the body (clear-index, statistics, snapshot enter and exit, index,
\* save, fsck) is taken while the lock file is the one this run created and
\* holds its pid; when no exception is in flight the release comes only
\* after the snapshot scope of the last path was left
C15_LockCoversRun ==
    /\ [][C15_Step]_vars
    /\ []C15_Inv

\* both paths of a run are through and the lock is still held
C15_Witness ==
    /\ pc[Main] = "exit"
    /\ exc[Main].type = "none"
    /\ Len(done) = 2 /\ args.npaths = 2
    /\ LockHeld

(* ------------------------------ C16 ------------------------------------ *)
\* the place of a command in the pipeline of a path
Rank(c) == CASE c = "index" -> 1
             [] c = "save" -> 2
             [] c \in VerifyCmds -> 3
             [] c \in ParityCmds -> 4
             [] OTHER -> 5

InScope == pc[Main] \in {"index", "save", "fsck1", "fsck2", "parity", "stats",
                         "snap_exit"}

C16_Inv ==
    /\ \A j, k \in 1..Len(cmds) : j < k => Rank(cmds[j].cmd) <= Rank(cmds[k].cmd)
    /\ \A k \in 1..Len(cmds) : Rank(cmds[k].cmd) \in {1, 2} => k = Rank(cmds[k].cmd)
    /\ pc[Main] = "snap_enter" \/ InScope => Len(done) = path - 1
    /\ pc[Main] = "snap_enter" => ~snapExists /\ ~snapVolume
    /\ pc[Main] = "index" => cmds = <<>>
    /\ pc[Main] = "save" => Len(cmds) = 1
    /\ pc[Main] \in {"fsck1", "fsck2"} => Rank(cmds[Len(cmds)].cmd) \in {2, 3}
    /\ pc[Main] = "parity" => Rank(cmds[Len(cmds)].cmd) \in {2, 3}

C16_Step ==
    /\ path' # path =>
          /\ path' = path + 1
          /\ pc'[Main] = "snap_enter"
          /\ Len(done') = path
    /\ Len(done') > Len(done) => pc[Main] = "snap_exit" /\ Len(done') = path

\* C16: the paths are taken in the configured order, one at a time; the
\* commands of a path come in the order index, save, verification, parity,
\* statistics, between the enter and the exit of its snapshot scope; the
\* scope of path i is left before the snapshot of path i+1 is entered, and
\* no snapshot exists when one is entered
C16_StrictlySequential ==
    /\ [][C16_Step]_vars
    /\ []C16_Inv

\* the second path is at its statistics after the full pipeline, the first
\* path being through
C16_Witness ==
    /\ path = 2 /\ Len(done) = 1
    /\ pc[Main] = "stats"
    /\ Len(cmds) = 5
    /\ cmds[1].cmd = "index" /\ cmds[2].cmd = "save"
    /\ cmds[3].cmd = "fsck --quick" /\ cmds[5].cmd = "fsck --generate"

(* ------------------------------ C17 ------------------------------------ *)
\* C17 as claimed: a run that ends with the repository directory still
\* absent (its initialisation failed) has exit status 3, has not called
\* create() and has processed no path
C17_InitFailureExits3 ==
    pc[Main] = "exited" /\ ~repoExists =>
        /\ status = 3
        /\ calls[Main] = 0 /\ ~inBody[Main] /\ lockfile.ino \in {0, 1}
        /\ path = 0 /\ cmds = <<>> /\ done = <<>>

(* ------------------------------ C18 ------------------------------------ *)
\* C18 as claimed: a run that an exception has ended has exit status 2
C18_AbortExits2 ==
    pc[Main] = "exited" /\ exc[Main].type # "none" => status = 2

(* ------------------------------ C19 ------------------------------------ *)
C19_Step ==
    pc[Main] = "exit" /\ pc'[Main] # "exit" /\ exc[Main].type # "none" =>
        /\ lockfile.ino = fdIno[Main]
        /\ lockfile' = NoFile
        /\ exc'[Main] = exc[Main]
        /\ pc'[Main] = "raised"

C19_Inv ==
    /\ inBody[Main] /\ exc[Main].type # "none" =>
          /\ pc[Main] \in {"snap_exit", "exit", "raised", "exited"}
          /\ pc[Main] \in {"raised", "exited"} => lockfile = NoFile
          /\ pc[Main] = "exited" => status \notin {-1, 0}
    /\ pc[Main] = "exited" /\ inBody[Main] /\ status = 0 =>
          exc[Main].type = "none" /\ success

\* C19: an exception raised in the guarded body (clear-index, statistics,
\* snapshot enter, the pipeline of a path) reaches Pidfile.__exit__, which
\* removes the lock file this run created and lets the exception go on; the
\* run then ends with a status other than 0
C19_FailureReleasesLock ==
    /\ [][C19_Step]_vars
    /\ []C19_Inv

\* the failed clear-index has ended the run: status 1, lock file removed
C19_Witness ==
    /\ pc[Main] = "exited"
    /\ inBody[Main]
    /\ exc[Main].type = "AttributeError"
    /\ status = 1
    /\ lockfile = NoFile

(* ------------------------------ C20 ------------------------------------ *)
C20_Inv ==
    IsPRE(exc[Main]) =>
        /\ pc[Main] \in {"raised", "exited"}
        /\ ~inBody[Main]
        /\ path = 0 /\ cmds = <<>> /\ done = <<>> /\ sizes = <<>>
        /\ lockfile = [ino |-> 1, content |-> pidstr[Main]]
        /\ exc[Main].type = "PRE" => pidstr[Main] = StrNat(exc[Main].pid)
        /\ exc[Main].type = "PRE_raw" => pidstr[Main] = exc[Main].raw
        /\ pc[Main] = "exited" => status \notin {-1, 0}

C20_Step ==
    IsPRE(exc[Main]) => lockfile' = lockfile /\ pidstr' = pidstr

\* C20: when create() fails with ProcessRunningException the body of the
\* lock is never entered: no statistics, snapshot, clear-index, index, save
\* or fsck is invoked, the lock file found at the start stays as it was read
\* (same file, same text), and the run ends with a status other than 0
C20_ContentionFailsFast ==
    /\ [][C20_Step]_vars
    /\ []C20_Inv

\* the run has ended on the lock of the running process 7
C20_Witness ==
    /\ pc[Main] = "exited"
    /\ exc[Main] = ProcessRunningException(7)
    /\ status = 1
    /\ lockfile = [ino |-> 1, content |-> StrNat(7)]

(* ------------------------------ C21 ------------------------------------ *)
\* the texts of the options of a command that carry the flag
OptVals(cmd, flag) ==
    {cmd.opts[k].val : k \in {j \in 1..Len(cmd.opts) : cmd.opts[j].flag = flag}}

\* the events of the run, in their order
Events == [k \in 1..Len(clog) |-> clog[k].ev]

HomePath == <<"/", "h", "o", "m", "e">>

\* the run of the scenario: /home alone, neither name nor branch name
\* given, the repository directory absent, every command successful
HomeScenario ==
    /\ conf.paths = <<HomePath>>
    /\ conf.name = <<>> /\ conf.branch_name = <<>>
    /\ conf.repository /\ ~conf.repoExists
    /\ CliSuccess

\* C21 as claimed: the run of the scenario, once ended, has initialised
\* the repository, created the lock, indexed /home, saved it under the
\* branch myhost_home and released the lock, in this order, and its exit
\* status is 0; a run that finds the repository directory never calls init
C21_EndToEnd ==
    /\ cpc = "exited" /\ HomeScenario =>
          /\ Events = <<"init", "lock", "index", "save", "cleanup", "unlock">>
          /\ clog[3].cmd.paths = <<HomePath>>
          /\ clog[4].cmd.paths = <<HomePath>>
          /\ OptVals(clog[4].cmd, "--name")
               = {<<"m", "y", "h", "o", "s", "t", "_", "h", "o", "m", "e">>}
          /\ cstatus = 0
    /\ conf.repoExists => CountEv(clog, "init") = 0

(* ------------------------------ C22 ------------------------------------ *)
\* the source path of the path whose command is the k-th event
PathOf(k) == conf.paths[CountEv(SubSeq(clog, 1, k), "cleanup") + 1]

\* b is prefix-pth, pth with every "/" turned into "_"
IsComputedBranch(b, prefix, pth) ==
    /\ Len(b) = Len(prefix) + 1 + Len(pth)
    /\ SubSeq(b, 1, Len(prefix)) = prefix
    /\ b[Len(prefix) + 1] = "-"
    /\ \A i \in 1..Len(pth) :
         b[Len(prefix) + 1 + i] = (IF pth[i] = "/" THEN "_" ELSE pth[i])

\* C22: every save is given exactly one --name; it is the branch name of
\* the command line when there is one, and otherwise the name of the
\* command line (the host name when there is none), a dash, and the source
\* path of the path with every "/" replaced by "_"
C22_BranchName ==
    \A k \in 1..Len(clog) :
        clog[k].ev = "save" =>
            \E b \in OptVals(clog[k].cmd, "--name") :
                /\ OptVals(clog[k].cmd, "--name") = {b}
                /\ IF conf.branch_name # <<>> THEN b = conf.branch_name
                   ELSE IsComputedBranch(b, IF conf.name # <<>> THEN conf.name
                                            ELSE Hostname, PathOf(k))

\* the second path, /srv/a, was saved under bk-_srv_a, and the first one
\* under a branch of the same name bk
C22_Witness ==
    /\ conf.name = <<"b", "k">>
    /\ Len(clog) >= 6
    /\ clog[3].ev = "save" /\ clog[6].ev = "save"
    /\ OptVals(clog[3].cmd, "--name") = {<<"b", "k", "-", "_", "h", "o", "m", "e">>}
    /\ OptVals(clog[6].cmd, "--name")
         = {<<"b", "k", "-", "_", "s", "r", "v", "_", "a">>}

(* ------------------------------ C23 ------------------------------------ *)
\* how many options of the command carry the flag
RECURSIVE CountFlag(_, _)
CountFlag(opts, flag) ==
    IF opts = <<>> THEN 0
    ELSE (IF Head(opts).flag = flag THEN 1 ELSE 0) + CountFlag(Tail(opts), flag)

\* C23: every save carries exactly one of --graft and --strip-path,
\* followed by the graft argument (the path of the snapshot handle): --graft
\* when the argument contains "=", --strip-path when it does not
C23_GraftOrStrip ==
    \A k \in 1..Len(clog) :
        clog[k].ev = "save" =>
            LET c == clog[k].cmd
                g == PathOf(k)
                hasEq == \E i \in 1..Len(g) : g[i] = "="
            IN /\ CountFlag(c.opts, "--graft") + CountFlag(c.opts, "--strip-path") = 1
               /\ hasEq => OptVals(c, "--graft") = {g}
               /\ ~hasEq => OptVals(c, "--strip-path") = {g}

\* /a=b was saved with --graft and /home with --strip-path
C23_Witness ==
    /\ Len(clog) >= 6
    /\ clog[3].ev = "save" /\ clog[6].ev = "save"
    /\ OptVals(clog[3].cmd, "--graft") = {<<"/", "a", "=", "b">>}
    /\ OptVals(clog[3].cmd, "--strip-path") = {}
    /\ OptVals(clog[6].cmd, "--strip-path") = {HomePath}
    /\ OptVals(clog[6].cmd, "--graft") = {}

(* ------------------------------ C24 ------------------------------------ *)
\* C24 as claimed: in a run with statistics, without snapshots and without
\* clear-index, nothing but a warning comes of a failure of the
\* statistics: once the lock was taken the run ends without an exception,
\* with every path processed and the status its paths alone decide
C24_StatsFailureIsWarning ==
    /\ pc[Main] = "exited" /\ inBody[Main]
    /\ args.stats /\ args.snapshot = "NO" /\ ~args.clear
    => /\ exc[Main].type = "none"
       /\ Len(done) = args.npaths
       /\ status = (IF success THEN 0 ELSE 1)

(* ------------------------------ C25 ------------------------------------ *)
\* the paths that are through and whose index succeeded
IndexedPaths == {k \in 1..Len(done) : done[k].index}

RECURSIVE SumDiffs(_)
\* the sum of the deltas reported after the second, third, ... sample
SumDiffs(s) == IF Len(s) < 2 THEN 0
               ELSE SumDiffs(SubSeq(s, 1, Len(s) - 1)) + LastDiff(s)

C25_Step ==
    sizes' # sizes =>
        /\ \E n \in SizeSamples : sizes' = Append(sizes, n)
        /\ IF pc[Main] = "process"
           THEN sizes = <<>> /\ path = 0
           ELSE /\ pc[Main] = "stats"
                /\ IndexOk(cmds)
                /\ Len(sizes') >= 2
                /\ Len(sizes') = Cardinality(IndexedPaths) + 2
                /\ LastDiff(sizes') = sizes'[Len(sizes')] - sizes[Len(sizes)]
                /\ cmds'[Len(cmds')].cmd = "notes add"

C25_Inv ==
    /\ ~args.stats => sizes = <<>>
    /\ args.stats /\ exc[Main].type = "none" /\ pc[Main] \in {"snap_enter", "exit"}
         => /\ Len(sizes) = 1 + Cardinality(IndexedPaths)
            /\ SummaryDiff(sizes) = SumDiffs(sizes)

\* C25: the samples are only appended: the first one before the first
\* path, one more in the statistics of every path whose index succeeded,
\* and none is changed or dropped; a note is added only when there are two
\* samples and its delta is the new sample minus the one before; at the end
\* of the run the delta of the summary, last minus first, is the sum of the
\* deltas of the paths
C25_SamplesOnlyGrow ==
    /\ [][C25_Step]_vars
    /\ []C25_Inv

\* two paths through with statistics: the repository grew by 1 and then
\* shrank by 1, and the summary reports no change
C25_Witness ==
    /\ pc[Main] = "exit" /\ exc[Main].type = "none"
    /\ args.stats
    /\ sizes = <<1, 2, 1>>
    /\ SummaryDiff(sizes) = 0

(* ------------------------------ C26 ------------------------------------ *)
\* the command line lacks a path or a repository, or gives both a name and
\* a branch name
ConfigError ==
    \/ Len(conf.paths) = 0
    \/ ~conf.repository
    \/ conf.name # <<>> /\ conf.branch_name # <<>>

C27_SelectByName ==
    selResult # "unset" =>
        /\ Lower(selName) = <<"n", "o">> => selResult = "NoSnapshot"
        /\ Lower(selName) = <<"l", "v", "m">> => selResult = "LvmSnapshot"
        /\ Lower(selName) \notin VariantNames => selResult = "TypeError"

(* ------------------------------ C28 ------------------------------------ *)
\* the enter of the volume snapshot returns
EnterReturns == pc[Main] = "snap_enter" /\ pc'[Main] = "snap_body"

C28_Step ==
    /\ EnterReturns =>
          /\ snapPath' # "src" => snapExists' /\ snapPath' = "snap"
          /\ ~snapExists' => snapPath' = "src" /\ (snapVolume' => snapVolume)
    /\ pc[Main] = "snap_exit" /\ pc'[Main] # "snap_exit" => ~snapExists'

C28_Inv ==
    pc[Main] \in {"snap_body", "snap_exit"} =>
        /\ snapPath # "src" => snapExists
        /\ ~snapExists => snapPath = "src" /\ (snapVolume => lvmHost.stale)

CreateReturns(p) == pc[p] = "write" /\ pc'[p] = "body"

\* the lock file exists, is the file this call of create() made, and holds
\* the decimal process id of p and nothing else
OwnLockFile(p) ==
    /\ lockfile'.ino # 0
    /\ lockfile'.ino = fdIno[p]
    /\ lockfile'.content = StrNat(Getpid(p))

\* p has lost a race in the recovery of a stale lock: the removal found no
\* file (ENOENT), or the second exclusive creation found one (EEXIST, with
\* no descriptor opened by this call); the handler of lines 802-803 has let
\* the error pass and p is at the write of line 813
LostRace(p) ==
    /\ pc[p] = "write"
    /\ \/ errno[p] = "ENOENT"
       \/ errno[p] = "EEXIST" /\ pidfd[p] # "open"

\* a create() that lost a race in the recovery does not return normally
C30_LostRaceRaises ==
    [][\A p \in Procs : LostRace(p) => ~CreateReturns(p)]_vars

\* C30 as claimed: under every interleaving of the acquirers, when create()
\* returns normally the file at the lock path exists, was created by this
\* call and holds exactly the process id of the caller; a create() that lost
\* a race in the recovery of a stale lock does not return normally
C30_AcquirePostcondition ==
    [][\A p \in Procs :
          /\ CreateReturns(p) => OwnLockFile(p)
          /\ LostRace(p) => ~CreateReturns(p)]_vars

(* ------------------------------ C31 ------------------------------------ *)
\* process p, which acquired the lock, takes the step of __exit__
Releases(p) ==
    /\ inBody[p]
    /\ pc[p] \in {"body", "exit"}
    /\ pc'[p] \in {"done", "raised"}

\* the release of p deletes the lock file only if it is the file p created
DeletesOwnFileOnly(p) ==
    Releases(p) /\ lockfile' # lockfile =>
        lockfile.ino # 0 /\ lockfile.ino = fdIno[p]

\* with a directory that permits the removal, the release that follows the
\* with-body raises no error of its own
ReleaseWithoutError(p) ==
    Releases(p) /\ pc[p] = "body" /\ dirWritable =>
        exc'[p].type \notin {"FileNotFoundError", "PermissionError"}

\* C31 as claimed: under every interleaving of the users of one lock path,
\* the release of a process deletes the lock file only if that file is the
\* one the process created, and every process that acquired the lock
\* releases it without error
C31_ReleaseOwnLockOnly ==
    [][\A p \in Procs : DeletesOwnFileOnly(p) /\ ReleaseWithoutError(p)]_vars

(* ------------------------------ C32 ------------------------------------ *)
\* the clear-index of this run was invoked and failed: in SpecRun the
\* AttributeError of line 1262 is the only exception of that type in the body
ClearFailed == inBody[Main] /\ exc[Main].type = "AttributeError"

\* clear-index has failed only in a run that asked for it on a repository
\* that this run did not initialise, under the lock and before any path
C32_ClearOnlyOnRequest ==
    ClearFailed =>
        /\ args.clear /\ ~initialised
        /\ calls[Main] = 1
        /\ path = 0 /\ cmds = <<>> /\ done = <<>>

\* C32 as claimed: clear-index runs only on request and on a repository not
\* initialised in this run, under the lock and before the first path; a run
\* whose clear-index failed still processes every configured path, and its
\* exit status is decided by the paths alone
C32_ClearFailureIsWarning ==
    /\ ClearFailed => args.clear /\ ~initialised /\ calls[Main] = 1
    /\ ClearFailed /\ pc[Main] = "exited" =>
          /\ Len(done) = args.npaths
          /\ status = IF \A k \in 1..Len(done) : PathSucceeded(done[k])
                      THEN 0 ELSE 1

(* ------------------------------ C33 ------------------------------------ *)
\* main() is one sequential process and every external command returns:
\* the run takes its next step whenever it has one
SpecRunFair == SpecRun /\ WF_vars(NextRun)

\* the run has acquired the lock
Acquired == inBody[Main]

\* a run that acquired the lock ends, and its lock file is removed; a run
\* that no exception has ended has left the scope of every path
C33_RunEndsUnlocked ==
    Acquired ~> /\ pc[Main] = "exited"
                /\ lockfile = NoFile
                /\ exc[Main].type = "none" => Len(done) = args.npaths

\* C33 as claimed: a run that acquired the lock eventually ends having
\* entered and left the snapshot scope of every configured path exactly
\* once, and with its lock file removed
C33_Termination ==
    Acquired ~> /\ pc[Main] = "exited"
                /\ Len(done) = args.npaths
                /\ lockfile = NoFile

====
